---------------------------- MODULE Spec2Model ----------------------------
(***************************************************************************)
(* Model of the DualSense communication layer (src/src/dualsense.rs) and   *)
(* of the loops that drive it (src/src/main.rs, src/src-tauri/src/main.rs).*)
(*                                                                         *)
(* Bytes are naturals in 0..255.  Rust slices are modelled as sequences;   *)
(* At(d, i) is the Rust expression d[i] (0-based).  f32 quantities of the  *)
(* orientation filter are modelled in fixed point with scale FP.  Time is  *)
(* a millisecond clock.                                                    *)
(***************************************************************************)
EXTENDS Integers, Sequences, FiniteSets, TLC

(***************************************************************************)
(* Bounds of the model                                                     *)
(***************************************************************************)
\* the clock stops advancing at MaxNow milliseconds
MaxNow == 1200
\* number of DualSense instances the desktop shell may open
MaxInstances == 2
\* calls on the spatial state and its snapshot that are counted (all but
\* integrate at rest once the sticks are let go), with and without snapshots
MaxSpatialOps == 3
MaxDriven == 2
\* calls of the attitude filter's update
MaxUpdates == 3
\* connection attempts of the WebSocket manager
MaxAttempts == 5

(***************************************************************************)
(* Program constants                                                       *)
(***************************************************************************)
USB_REPORT_SIZE == 64
BT_REPORT_SIZE == 78
USB_INPUT_REPORT_ID == 1
BT_INPUT_REPORT_ID == 49
\* minimum payload lengths checked by parse_usb_report / parse_bt_report
USB_MIN_PAYLOAD == 63
BT_MIN_PAYLOAD == 77
\* fixed-point scale standing for 1.0f32
FP == 1000
\* milliseconds in the one-second staleness limit of poll
ONE_SECOND == 1000

Usb == "Usb"
Bluetooth == "Bluetooth"
ConnectionType == {Usb, Bluetooth}

(***************************************************************************)
(* Byte and integer helpers                                                *)
(***************************************************************************)
Byte == 0..255

At(d, i) == d[i + 1]

\* Rust slice d[from..]
SliceFrom(d, from) == SubSeq(d, from + 1, Len(d))

\* Rust slice d[from..to]
Slice(d, from, to) == SubSeq(d, from + 1, to)

Min(a, b) == IF a <= b THEN a ELSE b

\* the function f with every value computed once, when the table is built
Tabulated(f) == f @@ <<>>

\* integer division truncating toward zero (Rust `/` on integers, and the
\* rounding chosen for the fixed-point quotients)
Div(a, b) == IF a >= 0 THEN a \div b ELSE -((-a) \div b)

\* b & mask != 0 for a one-bit mask
BitSet(b, mask) == (b \div mask) % 2 = 1

\* i16::from_le_bytes([lo, hi])
I16FromLe(lo, hi) ==
    LET u == lo + 256 * hi
    IN  IF u >= 32768 THEN u - 65536 ELSE u

\* F(v), with v computed once
Bind(v, F(_)) == CHOOSE r \in {F(x) : x \in {v}} : TRUE

\* bisection; the midpoint is computed once at each level
RECURSIVE SqrtSearch(_, _, _)
SqrtSearch(n, lo, hi) ==
    IF lo >= hi THEN lo
    ELSE CHOOSE r \in {IF mid * mid <= n THEN SqrtSearch(n, mid, hi)
                                          ELSE SqrtSearch(n, lo, mid - 1) :
                           mid \in {(lo + hi + 1) \div 2}} : TRUE

\* floor of the square root, standing for f32::sqrt
ISqrt(n) == SqrtSearch(n, 0, 46340)

(***************************************************************************)
(* Controller state (struct ControllerState and its parts)                 *)
(***************************************************************************)
ButtonNames ==
    {"cross", "circle", "square", "triangle",
     "dpad_up", "dpad_down", "dpad_left", "dpad_right",
     "l1", "r1", "l2_button", "r2_button", "l3", "r3",
     "options", "create", "ps", "touchpad", "mute"}

DefaultButtons == [b \in ButtonNames |-> FALSE]

DefaultTouchFinger == [active |-> FALSE, id |-> 0, x |-> 0, y |-> 0]

IdentityQuat == [w |-> FP, i |-> 0, j |-> 0, k |-> 0]

DefaultControllerState ==
    [buttons       |-> DefaultButtons,
     left_stick    |-> [x |-> 0, y |-> 0],
     right_stick   |-> [x |-> 0, y |-> 0],
     triggers      |-> [l2 |-> 0, r2 |-> 0],
     touchpad      |-> [finger1 |-> DefaultTouchFinger,
                        finger2 |-> DefaultTouchFinger],
     gyroscope     |-> [x |-> 0, y |-> 0, z |-> 0],
     accelerometer |-> [x |-> 0, y |-> 0, z |-> 0],
     battery       |-> [level |-> 0, charging |-> FALSE,
                        fully_charged |-> FALSE],
     timestamp     |-> 0,
     orientation   |-> IdentityQuat]

(***************************************************************************)
(* Report codec: input side                                                *)
(***************************************************************************)
\* matches!(dpad, 0 | 1 | 7) and its three siblings
\* a slip: up-left (7) left out of the up set
DpadUpNoUpLeft(dpad) == dpad \in {0, 1}

DpadUp(dpad) == dpad \in {0, 1, 7}
DpadRight(dpad) == dpad \in {1, 2, 3}
DpadDown(dpad) == dpad \in {3, 4, 5}
DpadLeft(dpad) == dpad \in {5, 6, 7}

parse_touch_point(data) ==
    [active |-> ~BitSet(At(data, 0), 128),
     id     |-> At(data, 0) % 128,
     x      |-> (At(data, 2) % 16) * 256 + At(data, 1),
     y      |-> (At(data, 3) * 16) + (At(data, 2) \div 16)]

parse_buttons(btns1, btns2, btns3) ==
    LET dpad == btns1 % 16
    IN  [dpad_up    |-> DpadUp(dpad),
         dpad_right |-> DpadRight(dpad),
         dpad_down  |-> DpadDown(dpad),
         dpad_left  |-> DpadLeft(dpad),
         square     |-> BitSet(btns1, 16),
         cross      |-> BitSet(btns1, 32),
         circle     |-> BitSet(btns1, 64),
         triangle   |-> BitSet(btns1, 128),
         l1         |-> BitSet(btns2, 1),
         r1         |-> BitSet(btns2, 2),
         l2_button  |-> BitSet(btns2, 4),
         r2_button  |-> BitSet(btns2, 8),
         create     |-> BitSet(btns2, 16),
         options    |-> BitSet(btns2, 32),
         l3         |-> BitSet(btns2, 64),
         r3         |-> BitSet(btns2, 128),
         ps         |-> BitSet(btns3, 1),
         touchpad   |-> BitSet(btns3, 2),
         mute       |-> BitSet(btns3, 4)]

\* parse_common_input(&mut self, data, offset): the state after the call
parse_common_input(st, data, offset) ==
    LET d == SliceFrom(data, offset)
        battery_byte == At(d, 52)
    IN  [st EXCEPT
           !.left_stick    = [x |-> At(d, 0), y |-> At(d, 1)],
           !.right_stick   = [x |-> At(d, 2), y |-> At(d, 3)],
           !.triggers      = [l2 |-> At(d, 4), r2 |-> At(d, 5)],
           !.timestamp     = At(d, 6),
           !.buttons       = parse_buttons(At(d, 7), At(d, 8), At(d, 9)),
           !.gyroscope     = [x |-> I16FromLe(At(d, 15), At(d, 16)),
                              y |-> I16FromLe(At(d, 17), At(d, 18)),
                              z |-> I16FromLe(At(d, 19), At(d, 20))],
           !.accelerometer = [x |-> I16FromLe(At(d, 21), At(d, 22)),
                              y |-> I16FromLe(At(d, 23), At(d, 24)),
                              z |-> I16FromLe(At(d, 25), At(d, 26))],
           !.touchpad      =
               IF Len(d) > 40
               THEN [finger1 |-> parse_touch_point(Slice(d, 32, 36)),
                     finger2 |-> parse_touch_point(Slice(d, 36, 40))]
               ELSE @,
           !.battery       =
               IF Len(d) > 52
               THEN [level         |-> battery_byte % 16,
                     charging      |-> BitSet(battery_byte, 16),
                     fully_charged |-> BitSet(battery_byte, 32)]
               ELSE @]

\* Result of a parse: ok with the new state, or the InvalidReport error
ParseOk(st) == [ok |-> TRUE, st |-> st]
ParseErr(st) == [ok |-> FALSE, st |-> st]

parse_usb_report(st, data) ==
    IF Len(data) < USB_MIN_PAYLOAD
    THEN ParseErr(st)
    ELSE ParseOk(parse_common_input(st, data, 0))

\* a slip: the Bluetooth payload parsed at the USB offset
parse_bt_report_usb_offset(st, data) ==
    IF Len(data) < BT_MIN_PAYLOAD
    THEN ParseErr(st)
    ELSE ParseOk(parse_common_input(st, data, 0))

parse_bt_report(st, data) ==
    IF Len(data) < BT_MIN_PAYLOAD
    THEN ParseErr(st)
    ELSE ParseOk(parse_common_input(st, data, 1))

\* Battery::percentage: (self.level * 10).min(100) on u8.  The product
\* overflows u8 for level >= 26: a build with overflow checks panics, a
\* build without them wraps modulo 256.  The set of possible outcomes.
percentage(level) ==
    IF level * 10 > 255
    THEN {[panic |-> TRUE, value |-> 0],
          [panic |-> FALSE, value |-> Min((level * 10) % 256, 100)]}
    ELSE {[panic |-> FALSE, value |-> Min(level * 10, 100)]}

(***************************************************************************)
(* Orientation estimator (struct MadgwickFilter), in fixed point           *)
(***************************************************************************)
\* filter gain passed to MadgwickFilter::new in find_and_connect: 0.1
BETA_NUM == 1
BETA_DEN == 10
\* accelerometer magnitude below which the correction is skipped: 0.01
ACCEL_EPS_DEN == 100

\* Gyroscope::to_rad_per_sec: raw * (1 / 1024)
to_rad_per_sec(g) ==
    [x |-> Div(g.x * FP, 1024), y |-> Div(g.y * FP, 1024),
     z |-> Div(g.z * FP, 1024)]

\* Accelerometer::to_g: raw * (1 / 8192)
to_g(a) ==
    [x |-> Div(a.x * FP, 8192), y |-> Div(a.y * FP, 8192),
     z |-> Div(a.z * FP, 8192)]

\* fixed-point product
Mul(a, b) == Div(a * b, FP)

QuatNormSq(q) == q.w * q.w + q.i * q.i + q.j * q.j + q.k * q.k

\* UnitQuaternion::from_quaternion: divide by the norm
from_quaternion(q) ==
    LET scaled(n) ==
            IF n = 0 THEN q
            ELSE [w |-> Div(q.w * FP, n), i |-> Div(q.i * FP, n),
                  j |-> Div(q.j * FP, n), k |-> Div(q.k * FP, n)]
    IN  Bind(ISqrt(QuatNormSq(q)), scaled)

\* q.quaternion() * Quaternion::new(0, gx, gy, gz) * 0.5
GyroDerivative(q, gyro) ==
    [w |-> Div(-(q.i * gyro.x) - (q.j * gyro.y) - (q.k * gyro.z), 2 * FP),
     i |-> Div((q.w * gyro.x) + (q.j * gyro.z) - (q.k * gyro.y), 2 * FP),
     j |-> Div((q.w * gyro.y) - (q.i * gyro.z) + (q.k * gyro.x), 2 * FP),
     k |-> Div((q.w * gyro.z) + (q.i * gyro.y) - (q.j * gyro.x), 2 * FP)]

\* x * dt, with dt given in milliseconds
TimesDt(x, dt_ms) == Div(x * dt_ms, ONE_SECOND)

\* MadgwickFilter::update up to new_q, the quaternion before it is normalised
MadgwickStep(q, gyro, accel, dt_ms) ==
    LET accel_norm == ISqrt(accel.x * accel.x + accel.y * accel.y
                            + accel.z * accel.z)
        q_dot == GyroDerivative(q, gyro)
    IN  IF accel_norm * ACCEL_EPS_DEN < FP
        THEN [w |-> q.w + TimesDt(q_dot.w, dt_ms),
              i |-> q.i + TimesDt(q_dot.i, dt_ms),
              j |-> q.j + TimesDt(q_dot.j, dt_ms),
              k |-> q.k + TimesDt(q_dot.k, dt_ms)]
        ELSE
          LET ax == Div(accel.x * FP, accel_norm)
              ay == Div(accel.y * FP, accel_norm)
              az == Div(accel.z * FP, accel_norm)
              f1 == 2 * (Mul(q.i, q.k) - Mul(q.w, q.j)) - ax
              f2 == 2 * (Mul(q.w, q.i) + Mul(q.j, q.k)) - ay
              f3 == 2 * (FP \div 2 - Mul(q.i, q.i) - Mul(q.j, q.j)) - az
              j11 == -2 * q.j
              j12 == 2 * q.k
              j13 == -2 * q.w
              j14 == 2 * q.i
              j21 == 2 * q.i
              j22 == 2 * q.w
              j23 == 2 * q.k
              j24 == 2 * q.j
              j31 == 0
              j32 == -4 * q.i
              j33 == -4 * q.j
              j34 == 0
              grad_w == Mul(j11, f1) + Mul(j21, f2) + Mul(j31, f3)
              grad_x == Mul(j12, f1) + Mul(j22, f2) + Mul(j32, f3)
              grad_y == Mul(j13, f1) + Mul(j23, f2) + Mul(j33, f3)
              grad_z == Mul(j14, f1) + Mul(j24, f2) + Mul(j34, f3)
              grad_norm == ISqrt(grad_w * grad_w + grad_x * grad_x
                                 + grad_y * grad_y + grad_z * grad_z)
              n_w == IF grad_norm > 0 THEN Div(grad_w * FP, grad_norm) ELSE 0
              n_x == IF grad_norm > 0 THEN Div(grad_x * FP, grad_norm) ELSE 0
              n_y == IF grad_norm > 0 THEN Div(grad_y * FP, grad_norm) ELSE 0
              n_z == IF grad_norm > 0 THEN Div(grad_z * FP, grad_norm) ELSE 0
              beta(g) == Div(BETA_NUM * g, BETA_DEN)
          IN  [w |-> q.w + TimesDt(q_dot.w - beta(n_w), dt_ms),
               i |-> q.i + TimesDt(q_dot.i - beta(n_x), dt_ms),
               j |-> q.j + TimesDt(q_dot.j - beta(n_y), dt_ms),
               k |-> q.k + TimesDt(q_dot.k - beta(n_z), dt_ms)]

\* an update that stores new_q as it is
MadgwickUpdateUnnormalized(q, gyro, accel, dt_ms) ==
    MadgwickStep(q, gyro, accel, dt_ms)

\* MadgwickFilter::update: the new value of self.q (also the return value)
MadgwickUpdate(q, gyro, accel, dt_ms) ==
    from_quaternion(MadgwickStep(q, gyro, accel, dt_ms))

(***************************************************************************)
(* What the device hands to read_timeout                                   *)
(***************************************************************************)
\* Shared payloads (63 bytes, offsets as in parse_common_input).
\*   1: controller at rest, sticks centred, 1 G on the z axis
\*   2: turning about x at 1 rad/s, cross and options held, one finger down
\*   3: every byte different from its neighbours
PayloadIds == 1..3

PayloadByte(k, i) ==
    CASE k = 1 -> (CASE i \in 0..3 -> 128
                     [] i = 7 -> 8
                     [] i = 26 -> 32
                     [] i \in {32, 36} -> 128
                     [] i = 52 -> 10
                     [] OTHER -> 0)
      [] k = 2 -> (CASE i \in 0..3 -> 128
                     [] i = 5 -> 255
                     [] i = 6 -> 1
                     [] i = 7 -> 32
                     [] i = 8 -> 32
                     [] i = 16 -> 4
                     [] i = 26 -> 32
                     [] i = 32 -> 5
                     [] i = 33 -> 52
                     [] i = 34 -> 18
                     [] i = 35 -> 7
                     [] i = 36 -> 128
                     [] i = 52 -> 27
                     [] OTHER -> 0)
      [] OTHER -> (5 * i + 3) % 64

Payload(k) == [i \in 1..63 |-> PayloadByte(k, i - 1)]

Zeros(n) == [i \in 1..n |-> 0]

\* the 78-byte read buffer after a read of n bytes of a frame: bytes past
\* the read keep the zero they were initialised with
ReadBuffer(frame, n) ==
    [i \in 1..BT_REPORT_SIZE |-> IF i <= n /\ i <= Len(frame) THEN frame[i] ELSE 0]

\* a USB input report: report id, then the shared payload
UsbFrame(id, k) == <<id>> \o Payload(k)

\* a Bluetooth input report: report id, one extra byte, the shared payload,
\* the rest of the 78 bytes
BtFrame(id, k) == <<id, 0>> \o Payload(k) \o Zeros(13)

FrameOf(conn, id, k) == IF conn = Usb THEN UsbFrame(id, k) ELSE BtFrame(id, k)

\* report ids the device may send
ReportIds == {USB_INPUT_REPORT_ID, BT_INPUT_REPORT_ID}

\* lengths a read may return on each transport
ReadLens(conn) == IF conn = Usb THEN {10, USB_REPORT_SIZE}
                                ELSE {10, BT_REPORT_SIZE}

ExpectedId(conn) == IF conn = Usb THEN USB_INPUT_REPORT_ID ELSE BT_INPUT_REPORT_ID

ExpectedSize(conn) == IF conn = Usb THEN USB_REPORT_SIZE ELSE BT_REPORT_SIZE

\* outcomes of device.read_timeout
NoRead == [kind |-> "none", n |-> 0, id |-> 0, payload |-> 0]
ReadError == [kind |-> "error", n |-> 0, id |-> 0, payload |-> 0]
ReadTimeout == [kind |-> "data", n |-> 0, id |-> 0, payload |-> 0]

\* Every payload arrives as a full report with the transport's own id; a
\* short read and a report with the other transport's id carry payload 3.
Reads(conn) ==
    {ReadError, ReadTimeout}
    \cup {[kind |-> "data", n |-> ExpectedSize(conn), id |-> ExpectedId(conn),
           payload |-> k] : k \in PayloadIds}
    \cup {[kind |-> "data", n |-> n, id |-> id, payload |-> 3] :
            n \in ReadLens(conn), id \in ReportIds}

AllReads == Reads(Usb) \cup Reads(Bluetooth)

\* the buffers, computed once
Buffers ==
    Tabulated([conn \in ConnectionType |->
        Tabulated([rd \in AllReads |->
            <<>> \o ReadBuffer(FrameOf(conn, rd.id, rd.payload), rd.n)])])

BufferOf(conn, rd) == Buffers[conn][rd]

(***************************************************************************)
(* Report codec: output side                                               *)
(***************************************************************************)
\* enum TriggerEffectMode and its discriminants
ModeTag(mode) ==
    CASE mode = "Off" -> 0
      [] mode = "Continuous" -> 1
      [] mode = "SectionResistance" -> 2
      [] mode = "Vibration" -> 6
      [] mode = "CombinedRV" -> 38
      [] mode = "Calibration" -> 252

TriggerEffectModes ==
    {"Off", "Continuous", "SectionResistance", "Vibration", "CombinedRV",
     "Calibration"}

\* TriggerEffect::default
DefaultTriggerEffect ==
    [mode |-> "Off", start_position |-> 0, end_position |-> 255,
     force |-> 0, frequency |-> 0]

\* TriggerEffect::continuous(force)
continuous(force) ==
    [mode |-> "Continuous", start_position |-> 0, end_position |-> 255,
     force |-> force, frequency |-> 0]

\* TriggerEffect::to_bytes
to_bytes(e) ==
    [n \in 1..11 |->
        LET i == n - 1
        IN  IF i = 0 THEN ModeTag(e.mode)
            ELSE CASE e.mode = "Continuous" ->
                        (CASE i = 1 -> e.start_position
                           [] i = 2 -> e.force
                           [] OTHER -> 0)
                   [] e.mode = "SectionResistance" ->
                        (CASE i = 1 -> e.start_position
                           [] i = 2 -> e.end_position
                           [] i = 3 -> e.force
                           [] OTHER -> 0)
                   [] e.mode = "Vibration" ->
                        (CASE i = 1 -> e.start_position
                           [] i = 2 -> e.force
                           [] i = 3 -> e.frequency
                           [] OTHER -> 0)
                   [] e.mode = "CombinedRV" ->
                        (CASE i = 1 -> e.start_position
                           [] i = 2 -> e.end_position
                           [] i = 3 -> e.force
                           [] i = 4 -> e.force \div 2
                           [] i = 5 -> e.force \div 2
                           [] i = 6 -> e.force
                           [] i = 9 -> e.frequency
                           [] OTHER -> 0)
                   [] OTHER -> 0]

\* PlayerLeds::default and PlayerLeds::from_player
NoLeds ==
    [led1 |-> FALSE, led2 |-> FALSE, led3 |-> FALSE, led4 |-> FALSE,
     led5 |-> FALSE]

from_player(player) ==
    CASE player = 1 -> [NoLeds EXCEPT !.led3 = TRUE]
      [] player = 2 -> [NoLeds EXCEPT !.led2 = TRUE, !.led4 = TRUE]
      [] player = 3 -> [NoLeds EXCEPT !.led1 = TRUE, !.led3 = TRUE,
                                      !.led5 = TRUE]
      [] player = 4 -> [NoLeds EXCEPT !.led1 = TRUE, !.led2 = TRUE,
                                      !.led4 = TRUE, !.led5 = TRUE]
      [] player = 5 -> [led1 |-> TRUE, led2 |-> TRUE, led3 |-> TRUE,
                        led4 |-> TRUE, led5 |-> TRUE]
      [] OTHER -> NoLeds

\* PlayerLeds::to_byte
PlayerLedsByte(leds) ==
    (IF leds.led1 THEN 1 ELSE 0) + (IF leds.led2 THEN 2 ELSE 0)
    + (IF leds.led3 THEN 4 ELSE 0) + (IF leds.led4 THEN 8 ELSE 0)
    + (IF leds.led5 THEN 16 ELSE 0)

\* MuteLedState::to_byte
MuteLedByte(m) ==
    CASE m = "Off" -> 0 [] m = "On" -> 1 [] m = "Breathing" -> 2

\* OutputState::default
DefaultOutputState ==
    [led_color        |-> <<255, 255, 255>>,
     rumble           |-> <<0, 0>>,
     l2_effect        |-> DefaultTriggerEffect,
     r2_effect        |-> DefaultTriggerEffect,
     player_leds      |-> NoLeds,
     mute_led         |-> "Off",
     lightbar_enabled |-> TRUE,
     bt_seq           |-> 0]

(***************************************************************************)
(* Arguments the callers of the output setters pass                        *)
(***************************************************************************)
Colors == {<<255, 255, 255>>, <<0, 255, 0>>}
Rumbles == {<<0, 0>>, <<200, 100>>}
Effects == {DefaultTriggerEffect, continuous(200)}
LedPatterns == {NoLeds, from_player(1)}
PlayerNumbers == {1, 6}
MuteStates == {"Off", "Breathing"}


\* every cached output state these arguments can produce
OutputDomain ==
    [led_color : Colors, rumble : Rumbles, l2_effect : Effects,
     r2_effect : Effects, player_leds : LedPatterns, mute_led : MuteStates,
     lightbar_enabled : BOOLEAN, bt_seq : 0..15]

(***************************************************************************)
(* CRC32 (crc32fast::Hasher), on 32-bit words kept as four bytes, least    *)
(* significant first                                                       *)
(***************************************************************************)
RECURSIVE XorBits(_, _)
XorBits(a, b) ==
    IF a = 0 THEN b
    ELSE IF b = 0 THEN a
    ELSE ((a + b) % 2) + 2 * XorBits(a \div 2, b \div 2)

\* a ^ b on bytes, tabulated once
XorTable == Tabulated([a \in Byte |-> Tabulated([b \in Byte |-> XorBits(a, b)])])

Xor(a, b) == XorTable[a][b]

WordXor(a, b) ==
    <<Xor(a[1], b[1]), Xor(a[2], b[2]), Xor(a[3], b[3]), Xor(a[4], b[4])>>

\* a >> 1
WordShr1(a) ==
    <<(a[1] \div 2) + 128 * (a[2] % 2), (a[2] \div 2) + 128 * (a[3] % 2),
      (a[3] \div 2) + 128 * (a[4] % 2), a[4] \div 2>>

\* a >> 8
WordShr8(a) == <<a[2], a[3], a[4], 0>>

\* the reflected polynomial 0xEDB88320
CrcPoly == <<32, 131, 184, 237>>

RECURSIVE CrcTableEntry(_, _)
CrcTableEntry(c, k) ==
    IF k = 0 THEN c
    ELSE CrcTableEntry(IF c[1] % 2 = 1 THEN WordXor(CrcPoly, WordShr1(c))
                                       ELSE WordShr1(c),
                       k - 1)

CrcTable == Tabulated([n \in Byte |-> CrcTableEntry(<<n, 0, 0, 0>>, 8)])

\* one byte into the running (inverted) crc
CrcUpdate(crc, byte) == WordXor(CrcTable[Xor(crc[1], byte)], WordShr8(crc))

\* the running crc after bytes lo..hi of data (1-based), by halves; the
\* test on crc[1] (never negative) has the crc of the left half computed
\* before the right half is entered
RECURSIVE CrcFold(_, _, _, _)
CrcFold(crc, data, lo, hi) ==
    IF crc[1] < 0 \/ lo > hi THEN crc
    ELSE IF lo = hi THEN CrcUpdate(crc, data[lo])
    ELSE LET mid == (lo + hi) \div 2
         IN  CrcFold(CrcFold(crc, data, lo, mid), data, mid + 1, hi)

AllOnes == <<255, 255, 255, 255>>

\* Hasher::new, update(data), finalize
Crc32(data) == WordXor(CrcFold(AllOnes, data, 1, Len(data)), AllOnes)

\* compute_bt_crc32: the hash of [0xa2, 0x31] followed by data
compute_bt_crc32(data) == Crc32(<<162, 49>> \o data)

\* u32::to_le_bytes
ToLeBytes(w) == w

(***************************************************************************)
(* send_output_report and the output setters                               *)
(***************************************************************************)
UsbOutputReport(output) ==
    LET l2 == to_bytes(output.l2_effect)
        r2 == to_bytes(output.r2_effect)
    IN  [n \in 1..48 |->
          LET i == n - 1
          IN  CASE i = 0 -> 2
                [] i = 1 -> 3
                [] i = 2 -> 21
                [] i = 3 -> output.rumble[2]
                [] i = 4 -> output.rumble[1]
                [] i = 9 -> MuteLedByte(output.mute_led)
                [] i \in 11..21 -> r2[i - 10]
                [] i \in 22..32 -> l2[i - 21]
                [] i = 39 -> 2
                [] i = 41 -> IF output.lightbar_enabled THEN 2 ELSE 1
                [] i = 44 -> PlayerLedsByte(output.player_leds)
                [] i = 45 -> output.led_color[1]
                [] i = 46 -> output.led_color[2]
                [] i = 47 -> output.led_color[3]
                [] OTHER -> 0]

\* (output.bt_seq << 4) | 0x02 on u8
BtSeqByte(bt_seq) == ((bt_seq * 16) % 256) + 2

\* the first 74 bytes of the Bluetooth report
BtOutputBody(output) ==
    LET l2 == to_bytes(output.l2_effect)
        r2 == to_bytes(output.r2_effect)
    IN  [n \in 1..74 |->
          LET i == n - 1
          IN  CASE i = 0 -> 49
                [] i = 1 -> BtSeqByte(output.bt_seq)
                [] i = 2 -> 3
                [] i = 3 -> 21
                [] i = 4 -> output.rumble[2]
                [] i = 5 -> output.rumble[1]
                [] i = 10 -> MuteLedByte(output.mute_led)
                [] i \in 12..22 -> r2[i - 11]
                [] i \in 23..33 -> l2[i - 22]
                [] i = 40 -> 2
                [] i = 42 -> IF output.lightbar_enabled THEN 2 ELSE 1
                [] i = 45 -> PlayerLedsByte(output.player_leds)
                [] i = 46 -> output.led_color[1]
                [] i = 47 -> output.led_color[2]
                [] i = 48 -> output.led_color[3]
                [] OTHER -> 0]

\* the checksums of the frames of OutputDomain, computed once
BtCrcOf ==
    Tabulated([o \in OutputDomain |-> compute_bt_crc32(BtOutputBody(o))])

\* the report with its checksum taken before the sequence byte is written
BtOutputReportCrcBeforeSeq(output) ==
    LET body == BtOutputBody(output)
        early == BtOutputBody([output EXCEPT !.bt_seq = 0])
    IN  body \o ToLeBytes(compute_bt_crc32(early))

\* the 78-byte Bluetooth report: the body, then crc.to_le_bytes()
BtOutputReport(output) ==
    LET body == BtOutputBody(output)
        crc == IF output \in OutputDomain THEN BtCrcOf[output]
               ELSE compute_bt_crc32(body)
    IN  body \o ToLeBytes(crc)

\* what a setter leaves behind: the reports handed to device.write, in
\* order, and the cached output state
Sent(reports, output) == [reports |-> reports, output |-> output]

\* send_output_report(&self): one report built from the cached state; on
\* Bluetooth the cached sequence counter is advanced
send_output_report(conn, output) ==
    IF conn = Usb
    THEN Sent(<<UsbOutputReport(output)>>, output)
    ELSE Sent(<<BtOutputReport(output)>>,
              [output EXCEPT !.bt_seq = (output.bt_seq + 1) % 16])

set_led_color(conn, output, r, g, b) ==
    send_output_report(conn, [output EXCEPT !.led_color = <<r, g, b>>,
                                            !.lightbar_enabled = TRUE])

\* a slip: no report when the motors already have the requested values
set_rumble_if_changed(conn, output, left, right) ==
    IF output.rumble = <<left, right>>
    THEN Sent(<<>>, output)
    ELSE send_output_report(conn, [output EXCEPT !.rumble = <<left, right>>])

set_rumble(conn, output, left, right) ==
    send_output_report(conn, [output EXCEPT !.rumble = <<left, right>>])

\* a slip: the effect stored for both triggers
set_l2_trigger_effect_both(conn, output, effect) ==
    send_output_report(conn, [output EXCEPT !.l2_effect = effect,
                                            !.r2_effect = effect])

set_l2_trigger_effect(conn, output, effect) ==
    send_output_report(conn, [output EXCEPT !.l2_effect = effect])

set_r2_trigger_effect(conn, output, effect) ==
    send_output_report(conn, [output EXCEPT !.r2_effect = effect])

set_trigger_effects(conn, output, l2, r2) ==
    send_output_report(conn, [output EXCEPT !.l2_effect = l2,
                                            !.r2_effect = r2])

set_player_leds(conn, output, leds) ==
    send_output_report(conn, [output EXCEPT !.player_leds = leds])

set_player_number(conn, output, player) ==
    set_player_leds(conn, output, from_player(player))

set_mute_led(conn, output, m) ==
    send_output_report(conn, [output EXCEPT !.mute_led = m])

apply_output_state(conn, output, new_state) ==
    send_output_report(conn, new_state)

\* one setter after another: the reports of both, the state of the second
Then(a, b) == Sent(a.reports \o b.reports, b.output)

\* DualSense::close: three setters, their results ignored
close(conn, output) ==
    LET a == set_rumble(conn, output, 0, 0)
        b == set_trigger_effects(conn, a.output, DefaultTriggerEffect,
                                 DefaultTriggerEffect)
        c == set_led_color(conn, b.output, 255, 255, 255)
    IN  Then(Then(a, b), c)

\* Drop for DualSense: two setters, their results ignored
drop(conn, output) ==
    LET a == set_rumble(conn, output, 0, 0)
        b == set_trigger_effects(conn, a.output, DefaultTriggerEffect,
                                 DefaultTriggerEffect)
    IN  Then(a, b)

(***************************************************************************)
(* Analog shaping: trigger modes, sticks, triggers, deadzone and velocity  *)
(* curves. f32 values are in fixed point, FP units to 1.0.                 *)
(***************************************************************************)
\* TriggerEffectMode::from_u8 with no arm for 0xFC
from_u8_no_calibration(v) ==
    CASE v = 0 -> "Off"
      [] v = 1 -> "Continuous"
      [] v = 2 -> "SectionResistance"
      [] v = 6 -> "Vibration"
      [] v = 38 -> "CombinedRV"
      [] OTHER -> "Off"

\* TriggerEffectMode::from_u8
from_u8(v) ==
    CASE v = 0 -> "Off"
      [] v = 1 -> "Continuous"
      [] v = 2 -> "SectionResistance"
      [] v = 6 -> "Vibration"
      [] v = 38 -> "CombinedRV"
      [] v = 252 -> "Calibration"
      [] OTHER -> "Off"

\* f32::abs, f32::signum (1.0 for +0.0) and f32::clamp
Abs(a) == IF a < 0 THEN -a ELSE a
Signum(a) == IF a < 0 THEN -1 ELSE 1
Clamp(v, lo, hi) == IF v < lo THEN lo ELSE IF v > hi THEN hi ELSE v

\* one axis of Stick::normalized: ((raw - 128) / 127).clamp(-1, 1)
StickAxis(raw) == Clamp(Div((raw - 128) * FP, 127), -FP, FP)

\* Stick::normalized; nan tells that a component is not a number
normalized(stick) ==
    [x |-> StickAxis(stick.x), y |-> StickAxis(stick.y), nan |-> FALSE]

\* Stick::normalized_with_deadzone; a zero magnitude that is not below the
\* deadzone divides 0.0 by 0.0
normalized_with_deadzone(stick, deadzone) ==
    LET n == normalized(stick)
        magnitude == ISqrt(n.x * n.x + n.y * n.y)
    IN  IF magnitude < deadzone THEN [x |-> 0, y |-> 0, nan |-> FALSE]
        ELSE IF magnitude = 0 THEN [x |-> 0, y |-> 0, nan |-> TRUE]
        ELSE LET scale == Div(Div((magnitude - deadzone) * FP, FP - deadzone)
                              * FP, magnitude)
             IN  [x |-> Mul(n.x, scale), y |-> Mul(n.y, scale),
                  nan |-> FALSE]

\* Triggers::normalized
triggers_normalized(triggers) ==
    [l2 |-> Div(triggers.l2 * FP, 255), r2 |-> Div(triggers.r2 * FP, 255)]

\* apply_deadzone without the division by (1 - deadzone)
apply_deadzone_unscaled(value, deadzone) ==
    IF Abs(value) < deadzone THEN 0
    ELSE Signum(value) * Clamp(Abs(value) - deadzone, 0, FP)

\* apply_deadzone (spatial.rs)
apply_deadzone(value, deadzone) ==
    IF Abs(value) < deadzone THEN 0
    ELSE LET sign == Signum(value)
             magnitude == Div((Abs(value) - deadzone) * FP, FP - deadzone)
         IN  sign * Clamp(magnitude, 0, FP)

VelocityCurves == {"Linear", "Quadratic", "Cubic"}

\* VelocityCurve::apply that returns the curved magnitude without the sign
apply_unsigned(curve, input) ==
    LET magnitude == Abs(input)
    IN  CASE curve = "Linear" -> magnitude
          [] curve = "Quadratic" -> Mul(magnitude, magnitude)
          [] curve = "Cubic" -> Mul(Mul(magnitude, magnitude), magnitude)

\* VelocityCurve::apply
apply(curve, input) ==
    LET sign == Signum(input)
        magnitude == Abs(input)
        curved == CASE curve = "Linear" -> magnitude
                    [] curve = "Quadratic" -> Mul(magnitude, magnitude)
                    [] curve = "Cubic" ->
                           Mul(Mul(magnitude, magnitude), magnitude)
    IN  sign * curved

\* Inputs of the shaping functions.  Deadzones are values of [0, 1); the
\* curve inputs are the tenths of [-1, 1], on which the fixed-point products
\* are exact.
Deadzones == {0, 120, 500, 990}
UnitValues == {10 * k - FP : k \in 0..200}
Tenths == {100 * k - FP : k \in 0..20}
StickBytes == {0, 1, 128, 200, 255}
EffectShapes ==
    {[start_position |-> 0, end_position |-> 255, frequency |-> 0],
     [start_position |-> 30, end_position |-> 200, frequency |-> 40]}

ShapeInputs ==
    {[fn |-> "effect",
      effect |-> [mode |-> m, start_position |-> sh.start_position,
                  end_position |-> sh.end_position, force |-> f,
                  frequency |-> sh.frequency]] :
         m \in TriggerEffectModes, f \in Byte, sh \in EffectShapes}
    \cup {[fn |-> "stick", stick |-> [x |-> x, y |-> y], deadzone |-> dz] :
              x \in Byte, y \in StickBytes, dz \in Deadzones}
    \cup {[fn |-> "triggers", triggers |-> [l2 |-> l2, r2 |-> r2]] :
              l2 \in Byte, r2 \in {0, 255}}
    \cup {[fn |-> "value", value |-> v, deadzone |-> dz] :
              v \in UnitValues, dz \in Deadzones}
    \cup {[fn |-> "curve", curve |-> c, input |-> x] :
              c \in VelocityCurves, x \in Tenths}

(***************************************************************************)
(* Spatial integration (spatial.rs).  Positions are in mm, velocities in   *)
(* mm/s, accelerations in G or mm/s^2, all in fixed point (FP units to     *)
(* 1.0); dt is in milliseconds.                                            *)
(***************************************************************************)
Zero3 == <<0, 0, 0>>

SpatialModes == {"Standard", "Heading", "Accelerometer", "AxiDraw", "ThreeD"}

\* IntegrationConfig::default
DefaultIntegrationConfig ==
    [velocity_curve |-> "Linear", max_linear_speed |-> 200 * FP,
     max_angular_speed |-> 6 * FP, linear_damping |-> 920,
     angular_damping |-> 960, smoothing_alpha |-> 150, gyro_weight |-> 920,
     deadzone |-> 120]

\* The orientation filter of the spatial_core crate, known by its interface
\* only: update integrates the angular rate into the orientation and
\* rotate_vec3 rotates a vector by it.
ComplementaryUpdate(q, gyro, accel, dt_ms) ==
    LET stepped(q_dot) == [w |-> q.w + TimesDt(q_dot.w, dt_ms),
                           i |-> q.i + TimesDt(q_dot.i, dt_ms),
                           j |-> q.j + TimesDt(q_dot.j, dt_ms),
                           k |-> q.k + TimesDt(q_dot.k, dt_ms)]
    IN  Bind(GyroDerivative(q, [x |-> gyro[1], y |-> gyro[2],
                                z |-> gyro[3]]),
             LAMBDA q_dot : Bind(stepped(q_dot), from_quaternion))

Cross(a, b) ==
    <<Mul(a[2], b[3]) - Mul(a[3], b[2]),
      Mul(a[3], b[1]) - Mul(a[1], b[3]),
      Mul(a[1], b[2]) - Mul(a[2], b[1])>>

\* v + 2 w (u x v) + 2 u x (u x v), u the vector part of q
rotate_vec3(q, v) ==
    LET u == <<q.i, q.j, q.k>>
        twice(c) == <<2 * c[1], 2 * c[2], 2 * c[3]>>
        sum(t, ut) == <<v[1] + Mul(q.w, t[1]) + ut[1],
                        v[2] + Mul(q.w, t[2]) + ut[2],
                        v[3] + Mul(q.w, t[3]) + ut[3]>>
    IN  Bind(twice(Cross(u, v)),
             LAMBDA t : Bind(Cross(u, t), LAMBDA ut : sum(t, ut)))

\* SpatialState::new
new(config) ==
    [mode |-> "Standard", position |-> Zero3, velocity |-> Zero3,
     linear_accel |-> Zero3, angular_velocity |-> Zero3,
     smoothed_velocity |-> Zero3, orientation |-> IdentityQuat,
     config |-> config, axidraw_force_type |-> 0]

\* a snapshot that leaves the smoothed velocity of the new state as it is
snapshot_without_smoothed(self) ==
    [new(self.config) EXCEPT
        !.mode = self.mode, !.position = self.position,
        !.velocity = self.velocity, !.linear_accel = self.linear_accel,
        !.angular_velocity = self.angular_velocity,
        !.orientation = self.orientation,
        !.axidraw_force_type = self.axidraw_force_type]

\* SpatialState::snapshot
snapshot(self) ==
    [new(self.config) EXCEPT
        !.mode = self.mode, !.position = self.position,
        !.velocity = self.velocity, !.linear_accel = self.linear_accel,
        !.angular_velocity = self.angular_velocity,
        !.smoothed_velocity = self.smoothed_velocity,
        !.orientation = self.orientation,
        !.axidraw_force_type = self.axidraw_force_type]

\* SpatialState::reset
reset(self) ==
    [self EXCEPT !.position = Zero3, !.velocity = Zero3,
                 !.linear_accel = Zero3, !.angular_velocity = Zero3,
                 !.smoothed_velocity = Zero3, !.orientation = IdentityQuat]

\* a slip: reset_position that clears the orientation as well
reset_position_and_orientation(self) ==
    [self EXCEPT !.position = Zero3, !.velocity = Zero3,
                 !.smoothed_velocity = Zero3, !.orientation = IdentityQuat]

\* SpatialState::reset_position
reset_position(self) ==
    [self EXCEPT !.position = Zero3, !.velocity = Zero3,
                 !.smoothed_velocity = Zero3]

\* SpatialState::reset_orientation
reset_orientation(self) == [self EXCEPT !.orientation = IdentityQuat]

\* SpatialState::set_mode
set_mode(self, mode) == [self EXCEPT !.mode = mode, !.velocity = Zero3]

\* velocity integrated into position
Advance(self, velocity, dt_ms) ==
    [self EXCEPT
        !.velocity = velocity,
        !.position = <<self.position[1] + TimesDt(velocity[1], dt_ms),
                       self.position[2] + TimesDt(velocity[2], dt_ms),
                       self.position[3] + TimesDt(velocity[3], dt_ms)>>]

\* the helper with the sign of alpha slipped in the first weight
update_velocity_and_position_overshoot(self, target_vel, dt_ms) ==
    LET alpha == self.config.smoothing_alpha
        blend(i) == Mul(self.velocity[i], FP + alpha)
                    + Mul(target_vel[i], alpha)
        has_input == \E i \in 1..3 : Abs(target_vel[i]) > FP \div 10
        damp(v) == Bind(Mul(v, self.config.linear_damping),
                        LAMBDA d : IF Abs(d) < FP \div 10 THEN 0 ELSE d)
        next(i) == IF has_input THEN blend(i) ELSE damp(blend(i))
    IN  Bind(<<next(1), next(2), next(3)>>,
             LAMBDA velocity : Advance(self, velocity, dt_ms))

\* SpatialState::update_velocity_and_position: smoothing toward the target,
\* damping and snap to zero when no target component exceeds 0.1, then
\* position += velocity * dt
update_velocity_and_position(self, target_vel, dt_ms) ==
    LET alpha == self.config.smoothing_alpha
        blend(i) == Mul(self.velocity[i], FP - alpha)
                    + Mul(target_vel[i], alpha)
        has_input == \E i \in 1..3 : Abs(target_vel[i]) > FP \div 10
        damp(v) == Bind(Mul(v, self.config.linear_damping),
                        LAMBDA d : IF Abs(d) < FP \div 10 THEN 0 ELSE d)
        next(i) == IF has_input THEN blend(i) ELSE damp(blend(i))
    IN  Bind(<<next(1), next(2), next(3)>>,
             LAMBDA velocity : Advance(self, velocity, dt_ms))

\* the Accelerometer arm of integrate; g_to_mms2 = 9806.65, the deadzone is
\* 0.08 g_to_mms2, the decay 0.98 and the snap to zero below 5 mm/s
AccelerometerStep(self, dt_ms) ==
    LET accel_deadzone == 784532
        to_mms2(g) == Div(g * 980665, 100)
        cut(a) == IF Abs(a) < accel_deadzone THEN 0
                  ELSE a - Signum(a) * accel_deadzone
        snap5(v) == IF Abs(v) < 5 * FP THEN 0 ELSE v
        step(v, a) == Bind(Div((v + TimesDt(a, dt_ms)) * 49, 50), snap5)
        next(i, g) == Bind(cut(to_mms2(g)),
                           LAMBDA a : step(self.velocity[i], a))
    IN  Bind(rotate_vec3(self.orientation, self.linear_accel),
             LAMBDA accel_world :
                 Bind(<<next(1, accel_world[1]), next(2, accel_world[2]),
                        next(3, accel_world[3] - FP)>>,
                      LAMBDA velocity : Advance(self, velocity, dt_ms)))

\* integrate up to the reset: the sensed rates, the orientation filter and
\* the Options button
Sense(self, state, dt_ms) ==
    LET quiet(g) == IF Abs(g) < 5 THEN 0 ELSE g
        rates(gyro) == <<quiet(gyro.x), quiet(gyro.y), quiet(gyro.z)>>
        forces(accel) == <<accel.x, accel.y, accel.z>>
        sensed(g3, a3) ==
            [self EXCEPT
                !.angular_velocity = g3,
                !.linear_accel = a3,
                !.orientation =
                    ComplementaryUpdate(self.orientation, g3, a3, dt_ms)]
        pressed(s) == IF state.buttons.options THEN reset(s) ELSE s
    IN  Bind(Bind(to_rad_per_sec(state.gyroscope), rates),
             LAMBDA g3 :
                 Bind(Bind(to_g(state.accelerometer), forces),
                      LAMBDA a3 : Bind(sensed(g3, a3), pressed)))

\* integrate: sticks and triggers normalised and cut by the deadzone
Shaped(dz, state) ==
    LET left == normalized(state.left_stick)
        right_stick == normalized(state.right_stick)
        trig == triggers_normalized(state.triggers)
    IN  [lx |-> apply_deadzone(left.x, dz),
         ly |-> apply_deadzone(left.y, dz),
         rx |-> apply_deadzone(right_stick.x, dz),
         ry |-> apply_deadzone(right_stick.y, dz),
         l2 |-> apply_deadzone(trig.l2, dz),
         r2 |-> apply_deadzone(trig.r2, dz)]

\* integrate: the match on the mode
Move(s, state, dt_ms) ==
    LET speed == s.config.max_linear_speed
        force_type ==
            IF state.buttons.dpad_right THEN 4
            ELSE IF state.buttons.dpad_left THEN 3
            ELSE IF state.buttons.dpad_down THEN 2
            ELSE IF state.buttons.dpad_up THEN 1
            ELSE s.axidraw_force_type
        heading(forward, v) ==
            <<Mul(forward[1], v), Mul(forward[2], v), Mul(forward[3], v)>>
        three_d(in, right, forward) ==
            <<Mul(Mul(right[1], in.lx) + Mul(forward[1], in.ly), speed),
              Mul(Mul(right[2], in.lx) + Mul(forward[2], in.ly), speed),
              Mul(in.r2 - in.l2, speed)
              + Mul(Mul(right[3], in.lx) + Mul(forward[3], in.ly), speed)>>
        towards(self, target_vel) ==
            Bind(target_vel,
                 LAMBDA t : update_velocity_and_position(self, t, dt_ms))
        arm(in) ==
            CASE s.mode = "Standard" ->
                   towards(s, <<Mul(in.lx, speed), Mul(in.ly, speed),
                                Mul(in.r2 - in.l2, speed)>>)
              [] s.mode = "Heading" ->
                   Bind(rotate_vec3(s.orientation, <<0, FP, 0>>),
                        LAMBDA forward :
                            towards(s, heading(forward,
                                               Mul(in.r2 - in.l2, speed))))
              [] s.mode = "Accelerometer" -> AccelerometerStep(s, dt_ms)
              [] s.mode = "AxiDraw" ->
                   towards([s EXCEPT !.axidraw_force_type = force_type],
                           <<Mul(in.rx + Mul(in.lx, FP \div 2), speed),
                             Mul(in.ry + Mul(in.ly, FP \div 2), speed),
                             Mul(Mul(in.r2, FP \div 2) - Mul(in.l2, 2 * FP),
                                 speed)>>)
              [] s.mode = "ThreeD" ->
                   Bind(rotate_vec3(s.orientation, <<0, FP, 0>>),
                        LAMBDA forward :
                            Bind(rotate_vec3(s.orientation, <<FP, 0, 0>>),
                                 LAMBDA right :
                                     towards(s, three_d(in, right, forward))))
    IN  Bind(Shaped(s.config.deadzone, state), arm)

\* integrate: the 80/20 blend of the smoothed velocity
Smooth(moved) ==
    LET blend(i) == Mul(moved.smoothed_velocity[i], 800)
                    + Mul(moved.velocity[i], 200)
    IN  [moved EXCEPT !.smoothed_velocity = <<blend(1), blend(2), blend(3)>>]

\* a slip: the force-type tag cleared at the start of every tick
integrate_unlatched(self, state, dt_ms) ==
    Bind(Sense(self, state, dt_ms),
         LAMBDA s : Bind(Move([s EXCEPT !.axidraw_force_type = 0], state,
                              dt_ms),
                         Smooth))

\* SpatialState::integrate
integrate(self, state, dt_ms) ==
    Bind(Sense(self, state, dt_ms),
         LAMBDA s : Bind(Move(s, state, dt_ms), Smooth))

(***************************************************************************)
(* State                                                                   *)
(***************************************************************************)
VARIABLES
    \* fields of struct DualSense
    connection_type, state, prev_state, filter_q, last_update, output_state,
    \* the wall clock (Instant::now), in milliseconds
    now,
    \* the outcome of the last device.read_timeout and of the last poll
    read, poll_result,
    \* the states produced by the last two polls that returned Ok
    ok_prev, ok_last,
    \* the last output operation: its name and whether it changed a cached
    \* field, the reports it handed to device.write, and byte 1 of the last
    \* report written before it (-1 when there is none)
    op, written, prev_seq,
    \* the loop that drives the connection: which loop it is, where it is,
    \* its running flag, whether it holds a DualSense (0: none), the number
    \* of the instance it holds, the instances that returned an error other
    \* than Timeout from poll, and whether poll was called on one of those
    loop, pc, running, handle, inst, dead, polled_dead,
    \* the pure functions of the codec applied to a byte: the byte, the
    \* function applied last, and the results
    codec_in, codec_fn, dpad_out, pct_out,
    \* the shaping functions applied to one input: the input and the result
    shape_in, shape_out,
    \* the spatial state and a snapshot of it (NoSnapshot before the first),
    \* the frame time in ms, the controller state handed to the last
    \* integrate, the last call (its name and the state it was made on), the
    \* number of counted calls left, and whether sticks and triggers have been
    \* let go for good
    spatial, snap, spatial_dt, pad, spatial_op, spatial_left, released,
    \* an attitude filter on its own: self.q, the arguments of the last
    \* update, the number of updates left, and whether every update so far
    \* had zero angular rate and 1 G on the z axis
    madgwick_q, madgwick_in, madgwick_left, gravity_only,
    \* WebSocketManager::run: its configuration, where it is together with
    \* its local reconnect_attempts and the connected flag, the shared
    \* running flag, the outcomes of the calls of connect so far, and why run
    \* returned
    ws_config, ws, ws_running, ws_history, ws_exit,
    \* run_mapper and its Executor: the front end that issues commands, the
    \* configuration, the two states handed to the last
    \* process_state_change, DebounceState::last_trigger, the command
    \* channel, where the loop is, what the last process_state_change did,
    \* when each debounced button's action was last executed (and what that
    \* was before the last call), the sleeping tasks spawned
    \* for rumble durations, the last rumble command, and whether the desktop
    \* shell still holds a controller
    frontend, ex_config, ex_prev, ex_cur, last_trigger, cmd_queue, mapper_pc,
    ex_call, last_exec, timers, rumble_cmd, desk_connected,
    \* one call of a setter of DualSense, statement by statement: the call
    \* and where it is, and whether the output-state lock is held
    setter, lock_held

deviceVars == <<connection_type, state, prev_state, filter_q, last_update>>
pollVars == <<read, poll_result, ok_prev, ok_last>>
outVars == <<output_state, op, written, prev_seq>>
vars == <<connection_type, state, prev_state, filter_q, last_update,
          output_state, now, read, poll_result, ok_prev, ok_last,
          op, written, prev_seq,
          loop, pc, running, handle, inst, dead, polled_dead,
          codec_in, codec_fn, dpad_out, pct_out,
          shape_in, shape_out,
          spatial, snap, spatial_dt, pad, spatial_op, spatial_left, released,
          madgwick_q, madgwick_in, madgwick_left, gravity_only,
          ws_config, ws, ws_running, ws_history, ws_exit,
          frontend, ex_config, ex_prev, ex_cur, last_trigger, cmd_queue,
          mapper_pc, ex_call, last_exec, timers, rumble_cmd, desk_connected,
          setter, lock_held>>
loopVars == <<loop, pc, running, handle, inst, dead, polled_dead>>
codecVars == <<codec_in, codec_fn, dpad_out, pct_out>>
shapeVars == <<shape_in, shape_out>>
\* the modules around the connection
spatialVars ==
    <<spatial, snap, spatial_dt, pad, spatial_op, spatial_left, released>>
filterVars == <<madgwick_q, madgwick_in, madgwick_left, gravity_only>>
wsVars == <<ws_config, ws, ws_running, ws_history, ws_exit>>
mapperVars ==
    <<frontend, ex_config, ex_prev, ex_cur, last_trigger, cmd_queue,
      mapper_pc, ex_call, last_exec, timers, rumble_cmd, desk_connected>>
lockVars == <<setter, lock_held>>
frontVars == <<mapperVars, lockVars>>
appVars == <<shapeVars, spatialVars, filterVars, wsVars, frontVars>>
coreVars == <<deviceVars, outVars, now, pollVars, loopVars, codecVars>>

(***************************************************************************)
(* DualSense::poll                                                         *)
(***************************************************************************)
\* steps of the wall clock between two operations, in milliseconds
Ticks == {400, 1000}

PollOut(result, st, pst, q, lu) ==
    [result |-> result, state |-> st, prev_state |-> pst, q |-> q,
     last_update |-> lu]

\* the match on self.connection_type in poll: the parse result
PollParse(conn, st, buf, bytes_read) ==
    IF conn = Usb
    THEN IF bytes_read >= USB_REPORT_SIZE /\ At(buf, 0) = USB_INPUT_REPORT_ID
         THEN parse_usb_report(st, SliceFrom(buf, 1))
         ELSE ParseOk(st)
    ELSE IF bytes_read >= BT_REPORT_SIZE /\ At(buf, 0) = BT_INPUT_REPORT_ID
         THEN parse_bt_report(st, SliceFrom(buf, 1))
         ELSE ParseOk(st)

\* a slip: the upper limit on dt left out
PollFilterAnyGap(st, q, dt_ms) ==
    IF dt_ms > 0
    THEN MadgwickUpdate(q, to_rad_per_sec(st.gyroscope),
                        to_g(st.accelerometer), dt_ms)
    ELSE q

\* the orientation update at the end of poll: the filter's q after it
PollFilter(st, q, dt_ms) ==
    IF dt_ms > 0 /\ dt_ms < ONE_SECOND
    THEN MadgwickUpdate(q, to_rad_per_sec(st.gyroscope),
                        to_g(st.accelerometer), dt_ms)
    ELSE q

\* a slip: the zero-byte test placed after the snapshot of the state
PollTimeoutAfterSnapshot(st, pst, q, lu) == PollOut("Timeout", st, st, q, lu)

\* the early return of poll on bytes_read == 0
PollTimeout(st, pst, q, lu) == PollOut("Timeout", st, pst, q, lu)

\* a slip: the snapshot of the previous state left out
PollParsedNoSnapshot(parsed, st, pst, q, lu, t) ==
    LET dt_ms == t - lu
        q2 == PollFilter(parsed.st, q, dt_ms)
        st2 == IF dt_ms > 0 /\ dt_ms < ONE_SECOND
               THEN [parsed.st EXCEPT !.orientation = q2]
               ELSE parsed.st
    IN  IF ~parsed.ok
        THEN PollOut("InvalidReport", parsed.st, pst, q, lu)
        ELSE PollOut("Ok", st2, pst, q2, t)

\* poll after a read of at least one byte: self.prev_state = self.state
\* .clone() comes first, then the parse (whose error is returned by `?`),
\* then the orientation update
PollParsed(parsed, st, pst, q, lu, t) ==
    LET dt_ms == t - lu
        q2 == PollFilter(parsed.st, q, dt_ms)
        st2 == IF dt_ms > 0 /\ dt_ms < ONE_SECOND
               THEN [parsed.st EXCEPT !.orientation = q2]
               ELSE parsed.st
    IN  IF ~parsed.ok
        THEN PollOut("InvalidReport", parsed.st, st, q, lu)
        ELSE PollOut("Ok", st2, st, q2, t)

\* poll(&mut self, timeout_ms) when read_timeout yields rd at time t:
\* the result and the fields of self after the call
poll(conn, st, pst, q, lu, rd, t) ==
    IF rd.kind = "error" THEN PollOut("HidApi", st, pst, q, lu)
    ELSE IF rd.n = 0 THEN PollTimeout(st, pst, q, lu)
    ELSE PollParsed(PollParse(conn, st, BufferOf(conn, rd), rd.n),
                    st, pst, q, lu, t)

\* the effect of one call of poll on the connection
PollWith(rd) ==
    LET r == poll(connection_type, state, prev_state, filter_q,
                  last_update, rd, now)
    IN  /\ state' = r.state
        /\ prev_state' = r.prev_state
        /\ filter_q' = r.q
        /\ last_update' = r.last_update
        /\ poll_result' = r.result
        /\ read' = rd
        /\ ok_prev' = IF r.result = "Ok" THEN ok_last ELSE ok_prev
        /\ ok_last' = IF r.result = "Ok" THEN r.state ELSE ok_last

Poll ==
    \E rd \in Reads(connection_type) :
        /\ PollWith(rd)
        /\ UNCHANGED <<connection_type, outVars, now, loopVars, codecVars,
                     appVars>>

\* time passes between two calls
Tick ==
    \E d \in Ticks :
        /\ now + d <= MaxNow
        /\ now' = now + d
        /\ UNCHANGED <<deviceVars, outVars, pollVars, loopVars, codecVars,
                     appVars>>

(***************************************************************************)
(* Output operations                                                       *)
(***************************************************************************)
\* Profile::to_output_state: rumble (0, 0) and bt_seq 0, the rest from the
\* profile
ProfileOutputState(color, l2, r2, leds, mute, lightbar) ==
    [led_color        |-> color,
     rumble           |-> <<0, 0>>,
     l2_effect        |-> l2,
     r2_effect        |-> r2,
     player_leds      |-> leds,
     mute_led         |-> mute,
     lightbar_enabled |-> lightbar,
     bt_seq           |-> 0]

Profiles ==
    {ProfileOutputState(<<255, 255, 255>>, DefaultTriggerEffect,
                        DefaultTriggerEffect, NoLeds, "Off", TRUE),
     ProfileOutputState(<<0, 255, 0>>, continuous(200), continuous(200),
                        from_player(1), "Breathing", FALSE)}

\* the cached fields a report carries (all but the sequence counter)
Fields(output) == [output EXCEPT !.bt_seq = 0]

LastOf(seq) == seq[Len(seq)]

\* the effect of an output operation whose outcome is sent
Write(name, sent) ==
    /\ output_state' = sent.output
    /\ written' = sent.reports
    /\ op' = [name |-> name,
              changed |-> Fields(sent.output) # Fields(output_state)]
    /\ prev_seq' = IF written # <<>> THEN At(LastOf(written), 1) ELSE prev_seq

Output(name, sent) ==
    /\ Write(name, sent)
    /\ UNCHANGED <<deviceVars, now, pollVars, loopVars, codecVars, appVars>>

SetLedColor ==
    \E c \in Colors :
        Output("set_led_color",
               set_led_color(connection_type, output_state, c[1], c[2], c[3]))

SetRumble ==
    \E r \in Rumbles :
        Output("set_rumble",
               set_rumble(connection_type, output_state, r[1], r[2]))

SetL2TriggerEffect ==
    \E e \in Effects :
        Output("set_l2_trigger_effect",
               set_l2_trigger_effect(connection_type, output_state, e))

SetR2TriggerEffect ==
    \E e \in Effects :
        Output("set_r2_trigger_effect",
               set_r2_trigger_effect(connection_type, output_state, e))

SetTriggerEffects ==
    \E l2 \in Effects, r2 \in Effects :
        Output("set_trigger_effects",
               set_trigger_effects(connection_type, output_state, l2, r2))

SetPlayerLeds ==
    \E leds \in LedPatterns :
        Output("set_player_leds",
               set_player_leds(connection_type, output_state, leds))

SetPlayerNumber ==
    \E player \in PlayerNumbers :
        Output("set_player_number",
               set_player_number(connection_type, output_state, player))

SetMuteLed ==
    \E m \in MuteStates :
        Output("set_mute_led",
               set_mute_led(connection_type, output_state, m))

ApplyOutputState ==
    \E new_state \in Profiles :
        Output("apply_output_state",
               apply_output_state(connection_type, output_state, new_state))

Setters == {"set_led_color", "set_rumble", "set_l2_trigger_effect",
            "set_r2_trigger_effect", "set_trigger_effects",
            "set_player_leds", "set_player_number", "set_mute_led",
            "apply_output_state"}

(***************************************************************************)
(* The loops that poll: run_mapper, monitor_controller, the 3-D viewer's   *)
(* controller thread (src/src/main.rs) and the desktop shell's polling     *)
(* thread (src/src-tauri/src/main.rs)                                      *)
(***************************************************************************)
Loops == {"mapper", "monitor", "viewer", "desktop"}

\* what the device answers while a loop runs
LoopReads(conn) ==
    {ReadError, ReadTimeout}
    \cup {[kind |-> "data", n |-> ExpectedSize(conn), id |-> ExpectedId(conn),
           payload |-> k] : k \in {1, 2}}

\* the colour each command-line loop sets before it starts polling
StartColor(l) ==
    CASE l = "mapper" -> <<0, 128, 255>>
      [] l = "monitor" -> <<0, 255, 0>>
      [] l = "viewer" -> <<128, 0, 255>>

\* where a loop goes after an iteration's match on the poll result
AfterMatch(l) ==
    CASE l = "mapper" -> "cmds"
      [] l = "monitor" -> "check"
      [] l = "viewer" -> "sleep"
      [] l = "desktop" -> "sleep"

\* set_led_color(..).ok() before the loop
LoopStart ==
    /\ pc = "start"
    /\ Write("set_led_color",
             set_led_color(connection_type, output_state, StartColor(loop)[1],
                           StartColor(loop)[2], StartColor(loop)[3]))
    /\ pc' = "check"
    /\ UNCHANGED <<deviceVars, now, pollVars, loop, running, handle, inst,
                   dead, polled_dead, codecVars, appVars>>

\* while running.load(..) { / loop { lock; if let Some(controller) = ..
LoopCheck ==
    /\ pc = "check"
    /\ pc' = IF loop = "desktop"
             THEN (IF handle = 1 THEN "poll" ELSE "sleep")
             ELSE (IF running THEN "poll" ELSE "close")
    /\ UNCHANGED <<deviceVars, outVars, now, pollVars, loop, running, handle,
                   inst, dead, polled_dead, codecVars, appVars>>

\* controller.poll(..)
LoopPoll ==
    /\ pc = "poll"
    /\ \E rd \in LoopReads(connection_type) : PollWith(rd)
    /\ pc' = "match"
    /\ polled_dead' = (polled_dead \/ inst \in dead)
    /\ dead' = IF poll_result' \in {"Ok", "Timeout"} THEN dead
               ELSE dead \cup {inst}
    /\ UNCHANGED <<connection_type, outVars, now, loop, running, handle,
                   inst, codecVars, appVars>>

\* Ok(..) => ..: the iteration goes on; in the viewer tx.send may fail
\* (receiver dropped), which ends the loop
LoopMatchOk ==
    /\ pc = "match"
    /\ poll_result = "Ok"
    /\ \/ pc' = AfterMatch(loop)
       \/ loop = "viewer" /\ pc' = "close"
    /\ UNCHANGED <<deviceVars, outVars, now, pollVars, loop, running, handle,
                   inst, dead, polled_dead, codecVars, appVars>>

\* Err(DualSenseError::Timeout) => {}
LoopMatchTimeout ==
    /\ pc = "match"
    /\ poll_result = "Timeout"
    /\ pc' = AfterMatch(loop)
    /\ UNCHANGED <<deviceVars, outVars, now, pollVars, loop, running, handle,
                   inst, dead, polled_dead, codecVars, appVars>>

\* a slip: the error arm without its break
LoopMatchErrContinue ==
    /\ pc = "match"
    /\ poll_result \notin {"Ok", "Timeout"}
    /\ loop # "desktop"
    /\ pc' = AfterMatch(loop)
    /\ UNCHANGED <<deviceVars, outVars, now, pollVars, loop, running, handle,
                   inst, dead, polled_dead, codecVars, appVars>>

\* Err(e) => { ..; break } in the command-line loops
LoopMatchErrBreak ==
    /\ pc = "match"
    /\ poll_result \notin {"Ok", "Timeout"}
    /\ loop # "desktop"
    /\ pc' = "close"
    /\ UNCHANGED <<deviceVars, outVars, now, pollVars, loop, running, handle,
                   inst, dead, polled_dead, codecVars, appVars>>

\* Err(_) => { *controller_guard = None; .. } in the desktop shell: the
\* instance is dropped, which runs Drop for DualSense
LoopMatchErrDiscard ==
    /\ pc = "match"
    /\ poll_result \notin {"Ok", "Timeout"}
    /\ loop = "desktop"
    /\ Write("drop", drop(connection_type, output_state))
    /\ handle' = 0
    /\ pc' = "sleep"
    /\ UNCHANGED <<deviceVars, now, pollVars, loop, running, inst, dead,
                   polled_dead, codecVars, appVars>>

\* commands the executor queued for the controller
LoopColors == {<<0, 255, 0>>}
LoopRumbles == {<<200, 100>>}

\* while let Ok(cmd) = cmd_rx.try_recv() { .. }: one command is handled, or
\* the channel is empty
LoopCmds ==
    /\ pc = "cmds"
    /\ \/ \E c \in LoopColors :
            /\ Write("set_led_color",
                     set_led_color(connection_type, output_state,
                                   c[1], c[2], c[3]))
            /\ pc' = "cmds"
       \/ \E r \in LoopRumbles :
            /\ Write("set_rumble",
                     set_rumble(connection_type, output_state, r[1], r[2]))
            /\ pc' = "cmds"
       \/ /\ pc' = "check"
          /\ UNCHANGED outVars
    /\ UNCHANGED <<deviceVars, now, pollVars, loop, running, handle, inst,
                   dead, polled_dead, codecVars, appVars>>

\* std::thread::sleep(..) at the end of an iteration
LoopSleep ==
    /\ pc = "sleep"
    /\ pc' = "check"
    /\ UNCHANGED <<deviceVars, outVars, now, pollVars, loop, running, handle,
                   inst, dead, polled_dead, codecVars, appVars>>

\* controller.close() and the drop of the controller after the loop
LoopClose ==
    /\ pc = "close"
    /\ Write("close",
             LET c == close(connection_type, output_state)
             IN  Then(c, drop(connection_type, c.output)))
    /\ handle' = 0
    /\ pc' = "done"
    /\ UNCHANGED <<deviceVars, now, pollVars, loop, running, inst, dead,
                   polled_dead, codecVars, appVars>>

\* Ctrl+C, or the renderer returning: running.store(false)
Stop ==
    /\ loop \in {"mapper", "monitor", "viewer"}
    /\ running
    /\ running' = FALSE
    /\ UNCHANGED <<deviceVars, outVars, now, pollVars, loop, pc, handle,
                   inst, dead, polled_dead, codecVars, appVars>>

\* connect_controller of the desktop shell: a new instance when none is
\* held (find_and_connect)
Connect ==
    /\ loop = "desktop"
    /\ handle = 0
    /\ inst < MaxInstances
    /\ inst' = inst + 1
    /\ handle' = 1
    /\ connection_type' \in ConnectionType
    /\ state' = DefaultControllerState
    /\ prev_state' = DefaultControllerState
    /\ filter_q' = IdentityQuat
    /\ last_update' = now
    /\ output_state' = DefaultOutputState
    /\ UNCHANGED <<op, written, prev_seq, now, pollVars, loop, pc, running,
                   dead, polled_dead, codecVars, appVars>>

(***************************************************************************)
(* The codec's pure functions on one byte                                  *)
(***************************************************************************)
DpadOf(buttons) ==
    [up |-> buttons.dpad_up, right |-> buttons.dpad_right,
     down |-> buttons.dpad_down, left |-> buttons.dpad_left]

\* the byte is the first button byte of a report
DecodeDpad ==
    /\ codec_fn' = "dpad"
    /\ dpad_out' = DpadOf(parse_buttons(codec_in, 0, 0))
    /\ UNCHANGED <<deviceVars, outVars, now, pollVars, loopVars, codec_in,
                   pct_out, appVars>>

\* the byte is the level field of a Battery
BatteryPercentage ==
    /\ codec_fn' = "percentage"
    /\ \E r \in percentage(codec_in) : pct_out' = r
    /\ UNCHANGED <<deviceVars, outVars, now, pollVars, loopVars, codec_in,
                   dpad_out, appVars>>

(***************************************************************************)
(* The shaping functions applied to one input                              *)
(***************************************************************************)
NoShape ==
    /\ shape_in = [fn |-> "none"]
    /\ shape_out = [fn |-> "none"]

Shape(out) ==
    /\ shape_out' = out
    /\ UNCHANGED <<coreVars, frontVars, shape_in, spatialVars, filterVars, wsVars>>

\* effect.to_bytes(), and the mode read back from byte 0
EncodeTrigger ==
    /\ shape_in.fn = "effect"
    /\ LET bytes == to_bytes(shape_in.effect)
       IN  Shape([fn |-> "to_bytes", bytes |-> bytes,
                  mode |-> from_u8(bytes[1])])

NormalizeStick ==
    /\ shape_in.fn = "stick"
    /\ Shape([fn |-> "normalized", xy |-> normalized(shape_in.stick)])

NormalizeStickWithDeadzone ==
    /\ shape_in.fn = "stick"
    /\ Shape([fn |-> "normalized_with_deadzone",
              xy |-> normalized_with_deadzone(shape_in.stick,
                                              shape_in.deadzone)])

NormalizeTriggers ==
    /\ shape_in.fn = "triggers"
    /\ Shape([fn |-> "triggers_normalized",
              lr |-> triggers_normalized(shape_in.triggers)])

ApplyDeadzone ==
    /\ shape_in.fn = "value"
    /\ Shape([fn |-> "apply_deadzone",
              value |-> apply_deadzone(shape_in.value, shape_in.deadzone)])

\* curve.apply(x) and curve.apply(-x)
ApplyCurve ==
    /\ shape_in.fn = "curve"
    /\ Shape([fn |-> "apply",
              value |-> apply(shape_in.curve, shape_in.input),
              mirrored |-> apply(shape_in.curve, -shape_in.input)])

(***************************************************************************)
(* Calls on the spatial state                                              *)
(***************************************************************************)
\* controller states as poll hands them to integrate
Pad(left, right, triggers, gyro, accel, pressed) ==
    [DefaultControllerState EXCEPT
        !.left_stick = left, !.right_stick = right, !.triggers = triggers,
        !.gyroscope = gyro, !.accelerometer = accel,
        !.buttons = [b \in ButtonNames |-> b \in pressed]]

Centre == [x |-> 128, y |-> 128]
Released == [l2 |-> 0, r2 |-> 0]
Still == [x |-> 0, y |-> 0, z |-> 0]
Gravity == [x |-> 0, y |-> 0, z |-> 8192]

\* at rest: nothing touched, no rotation, 1 G on the up axis
AtRest ==
    {Pad(Centre, Centre, Released, Still, Gravity, pressed) :
        pressed \in {{}, {"options"}}}

\* sticks centred and triggers released
ZeroInputs ==
    AtRest
    \cup {Pad(Centre, Centre, Released, [x |-> 1024, y |-> 0, z |-> 0],
              Gravity, {}),
          Pad(Centre, Centre, Released, Still,
              [x |-> 4096, y |-> 0, z |-> 8192], {})}

\* the D-pad pressed: a direction, a diagonal, and a direction together with
\* a stick
DpadInputs ==
    {Pad(Centre, Centre, Released, Still, Gravity, {"dpad_down"}),
     Pad(Centre, Centre, Released, Still, Gravity, {"dpad_up", "dpad_right"}),
     Pad(Centre, [x |-> 200, y |-> 128], Released, Still, Gravity,
         {"dpad_left"})}

SpatialInputs ==
    ZeroInputs
    \cup {Pad([x |-> 255, y |-> 128], Centre, [l2 |-> 0, r2 |-> 255], Still,
              Gravity, {}),
          Pad([x |-> 200, y |-> 0], [x |-> 128, y |-> 255],
              [l2 |-> 255, r2 |-> 0], [x |-> 0, y |-> 0, z |-> -512],
              Gravity, {"dpad_up"})}

\* the inputs of a tick: AxiDraw is the one mode that reads the D-pad, and
\* gets every D-pad input
InputsFor(self) ==
    IF self.mode = "AxiDraw" THEN SpatialInputs \cup DpadInputs
    ELSE SpatialInputs

\* the modes whose velocity goes through update_velocity_and_position
DampedModes == SpatialModes \ {"Accelerometer"}

Configs ==
    {DefaultIntegrationConfig,
     [DefaultIntegrationConfig EXCEPT !.smoothing_alpha = 500,
                                      !.linear_damping = 500]}

\* configurations that select one of the other velocity curves
CurveConfigs ==
    {[DefaultIntegrationConfig EXCEPT !.velocity_curve = curve] :
        curve \in VelocityCurves \ {"Linear"}}
Dts == {8, 16}

NoSnapshot == [mode |-> "none"]

NoSpatial ==
    /\ spatial = new(DefaultIntegrationConfig)
    /\ snap = NoSnapshot
    /\ spatial_dt = 16
    /\ pad = DefaultControllerState
    /\ spatial_op = [name |-> "none", on |-> "none"]
    /\ spatial_left = 0
    /\ released = FALSE

SpatialCall(name, on, cost) ==
    /\ cost <= spatial_left
    /\ spatial_left' = spatial_left - cost
    /\ spatial_op' = [name |-> name, on |-> on]
    /\ UNCHANGED <<coreVars, frontVars, shapeVars, spatial_dt, filterVars, wsVars>>

\* spatial.integrate(state, dt) in a poll loop.  Once sticks and triggers
\* are let go every call has them centred and released, and a call at rest
\* in a damped mode is not counted.
Integrate ==
    \E c \in InputsFor(spatial) :
        /\ released => c \in ZeroInputs
        /\ SpatialCall("integrate", "spatial",
                       IF released /\ c \in AtRest
                          /\ spatial.mode \in DampedModes THEN 0 ELSE 1)
        /\ pad' = c
        /\ spatial' = integrate(spatial, c, spatial_dt)
        /\ UNCHANGED <<snap, released>>

\* set_spatial_mode
SetMode ==
    \E mode \in SpatialModes \ {spatial.mode} :
        /\ ~released
        /\ spatial' = set_mode(spatial, mode)
        /\ SpatialCall("set_mode", "spatial", 1)
        /\ UNCHANGED <<snap, pad, released>>

\* reset_spatial
Reset ==
    /\ ~released
    /\ spatial' = reset(spatial)
    /\ SpatialCall("reset", "spatial", 1)
    /\ UNCHANGED <<snap, pad, released>>

\* spatial.reset_position()
ResetPosition ==
    /\ ~released
    /\ spatial' = reset_position(spatial)
    /\ SpatialCall("reset_position", "spatial", 1)
    /\ UNCHANGED <<snap, pad, released>>

\* spatial.reset_orientation()
ResetOrientation ==
    /\ ~released
    /\ spatial' = reset_orientation(spatial)
    /\ SpatialCall("reset_orientation", "spatial", 1)
    /\ UNCHANGED <<snap, pad, released>>

\* tx.send(spatial_state.snapshot())
Snapshot ==
    /\ ~released
    /\ snap' = snapshot(spatial)
    /\ SpatialCall("snapshot", "spatial", 1)
    /\ UNCHANGED <<spatial, pad, released>>

\* the same calls made on the snapshot by the thread that received it
SnapIntegrate ==
    \E c \in SpatialInputs :
        /\ snap # NoSnapshot
        /\ SpatialCall("integrate", "snap", 1)
        /\ pad' = c
        /\ snap' = integrate(snap, c, spatial_dt)
        /\ UNCHANGED <<spatial, released>>

SnapSetMode ==
    \E mode \in SpatialModes :
        /\ snap # NoSnapshot
        /\ mode # snap.mode
        /\ snap' = set_mode(snap, mode)
        /\ SpatialCall("set_mode", "snap", 1)
        /\ UNCHANGED <<spatial, pad, released>>

SnapReset ==
    /\ snap # NoSnapshot
    /\ snap' = reset(snap)
    /\ SpatialCall("reset", "snap", 1)
    /\ UNCHANGED <<spatial, pad, released>>

\* from here on sticks and triggers stay centred and released
Release ==
    /\ ~released
    /\ released' = TRUE
    /\ UNCHANGED <<coreVars, frontVars, shapeVars, spatial, snap, spatial_dt, pad,
                   spatial_op, spatial_left, filterVars, wsVars>>

(***************************************************************************)
(* The attitude filter on its own (dualsense.rs, MadgwickFilter)           *)
(***************************************************************************)
NoRate == [x |-> 0, y |-> 0, z |-> 0]
OneG == [x |-> 0, y |-> 0, z |-> FP]

\* angular rates in rad/s and accelerations in G handed to update
GyroRates == {NoRate, [x |-> FP, y |-> 0, z |-> 0]}
AccelReadings == {OneG, [x |-> 500, y |-> 0, z |-> 866], NoRate}
\* dt in milliseconds, inside (0, 1) s
FilterDts == {1, 16, 999}

\* MadgwickFilter::new
NoFilter ==
    /\ madgwick_q = IdentityQuat
    /\ madgwick_in = [gyro |-> NoRate, accel |-> NoRate, dt |-> 0]
    /\ madgwick_left = 0
    /\ gravity_only = TRUE

\* filter.update(gyro, accel, dt)
Update ==
    \E gyro \in GyroRates, accel \in AccelReadings, dt \in FilterDts :
        /\ madgwick_left > 0
        /\ madgwick_left' = madgwick_left - 1
        /\ madgwick_q' = MadgwickUpdate(madgwick_q, gyro, accel, dt)
        /\ madgwick_in' = [gyro |-> gyro, accel |-> accel, dt |-> dt]
        /\ gravity_only' = (gravity_only /\ gyro = NoRate /\ accel = OneG)
        /\ UNCHANGED <<coreVars, frontVars, shapeVars, spatialVars, wsVars>>

(***************************************************************************)
(* WebSocketManager::run (websocket.rs)                                    *)
(***************************************************************************)
\* run before its first statement
NotRun == [pc |-> "start", reconnect_attempts |-> 0, connected |-> FALSE]

NoWs ==
    /\ ws_config = [reconnect |-> TRUE, max_reconnect_attempts |-> 0]
    /\ ws = NotRun
    /\ ws_running = TRUE
    /\ ws_history = <<>>
    /\ ws_exit = "none"

WsStep(next) ==
    /\ ws' = next
    /\ UNCHANGED <<coreVars, frontVars, shapeVars, spatialVars, filterVars, ws_config,
                   ws_running>>

\* the Ok arm of the match on connect() with the count left as it is
ConnectOkKeepsCount(run) ==
    [run EXCEPT !.pc = "messages", !.connected = TRUE]

\* the Ok arm of the match on connect(), up to handle_messages
ConnectOk(run) ==
    [run EXCEPT !.pc = "messages", !.reconnect_attempts = 0,
                !.connected = TRUE]

\* the Err arm of the match on connect()
ConnectErr(run, config) ==
    LET attempts == run.reconnect_attempts + 1
    IN  [run EXCEPT
            !.reconnect_attempts = attempts,
            !.pc = IF config.max_reconnect_attempts > 0
                      /\ attempts >= config.max_reconnect_attempts
                   THEN "returned" ELSE "after"]

\* let mut reconnect_attempts = 0
WsRun ==
    /\ ws.pc = "start"
    /\ WsStep([ws EXCEPT !.pc = "while", !.reconnect_attempts = 0])
    /\ UNCHANGED <<ws_history, ws_exit>>

\* while self.running.load(..)
WsWhile ==
    /\ ws.pc = "while"
    /\ WsStep([ws EXCEPT !.pc = IF ws_running THEN "connect" ELSE "returned"])
    /\ ws_exit' = IF ws_running THEN ws_exit ELSE "stopped"
    /\ UNCHANGED ws_history

\* self.connect().await returns Ok
WsConnected ==
    /\ ws.pc = "connect"
    /\ Len(ws_history) < MaxAttempts
    /\ WsStep(ConnectOk(ws))
    /\ ws_history' = Append(ws_history, "ok")
    /\ UNCHANGED ws_exit

\* self.connect().await returns Err
WsFailed ==
    /\ ws.pc = "connect"
    /\ Len(ws_history) < MaxAttempts
    /\ WsStep(ConnectErr(ws, ws_config))
    /\ ws_history' = Append(ws_history, "err")
    /\ ws_exit' = IF ConnectErr(ws, ws_config).pc = "returned"
                  THEN "max_attempts" ELSE ws_exit

\* handle_messages returns: the connection is gone
WsDisconnected ==
    /\ ws.pc = "messages"
    /\ WsStep([ws EXCEPT !.connected = FALSE,
                         !.pc = IF ws_config.reconnect THEN "after"
                                ELSE "returned"])
    /\ ws_exit' = IF ws_config.reconnect THEN ws_exit ELSE "no_reconnect"
    /\ UNCHANGED ws_history

\* if !self.running.load(..) { break }
WsAfter ==
    /\ ws.pc = "after"
    /\ WsStep([ws EXCEPT !.pc = IF ws_running THEN "sleep" ELSE "returned"])
    /\ ws_exit' = IF ws_running THEN ws_exit ELSE "stopped"
    /\ UNCHANGED ws_history

\* sleep(reconnect_delay_ms) is over
WsSlept ==
    /\ ws.pc = "sleep"
    /\ WsStep([ws EXCEPT !.pc = "while"])
    /\ UNCHANGED <<ws_history, ws_exit>>

\* another task clears the running flag
WsStop ==
    /\ ws_running
    /\ ws.pc \notin {"start", "returned"}
    /\ ws_running' = FALSE
    /\ UNCHANGED <<coreVars, frontVars, shapeVars, spatialVars, filterVars, ws_config,
                   ws, ws_history, ws_exit>>

(***************************************************************************)
(* Executor (executor.rs) and the command channel of run_mapper (main.rs)  *)
(***************************************************************************)
\* Option<T>: None and Some(x)
None == <<>>
Some(x) == <<x>>

\* the buttons in the order process_state_change checks them
ButtonOrder ==
    <<"cross", "circle", "square", "triangle", "l1", "r1", "l2_button",
      "r2_button", "dpad_up", "dpad_down", "dpad_left", "dpad_right", "l3",
      "r3", "options", "create", "ps", "touchpad", "mute">>

\* str::to_lowercase on the trigger strings of the configurations below
to_lowercase(s) ==
    CASE s = "HOLD" -> "hold"
      [] s = "Release" -> "release"
      [] OTHER -> s

\* EventType::from_str
from_str(s) ==
    CASE to_lowercase(s) = "release" -> "Release"
      [] to_lowercase(s) = "hold" -> "Hold"
      [] to_lowercase(s) = "change" -> "Change"
      [] OTHER -> "Press"

\* a slip: Press on the level of the button instead of its edge
should_trigger_on_level(event_type, prev, current) ==
    CASE event_type = "Press" -> current
      [] event_type = "Release" -> prev /\ ~current
      [] event_type = "Hold" -> current
      [] event_type = "Change" -> prev # current

\* let should_trigger = match event_type { .. } in check_button_action
should_trigger(event_type, prev, current) ==
    CASE event_type = "Press" -> ~prev /\ current
      [] event_type = "Release" -> prev /\ ~current
      [] event_type = "Hold" -> current
      [] event_type = "Change" -> prev # current

\* a slip: the time of a suppressed attempt is recorded too
can_trigger_restarts(last, key, debounce_ms, t) ==
    IF debounce_ms = 0 THEN [ok |-> TRUE, last_trigger |-> last]
    ELSE [ok |-> ~(key \in DOMAIN last /\ t - last[key] < debounce_ms),
          last_trigger |-> (key :> t) @@ last]

\* DebounceState::can_trigger at Instant::now() = t: whether the action may
\* run, and last_trigger afterwards
can_trigger(last, key, debounce_ms, t) ==
    IF debounce_ms = 0 THEN [ok |-> TRUE, last_trigger |-> last]
    ELSE IF key \in DOMAIN last /\ t - last[key] < debounce_ms
    THEN [ok |-> FALSE, last_trigger |-> last]
    ELSE [ok |-> TRUE, last_trigger |-> (key :> t) @@ last]

\* mpsc::channel::<ControllerCommand>(32)
CHANNEL_CAPACITY == 32

\* enum ControllerCommand
SetLedCommand(r, g, b) == [cmd |-> "SetLed", args |-> <<r, g, b>>]
SetRumbleCommand(left, right, duration_ms) ==
    [cmd |-> "SetRumble", args |-> <<left, right, duration_ms>>]

\* process_state_change under way: "running", "err" once a `?` has returned
\* an error, "blocked" once a send waits on the full channel; last_trigger
\* and the channel as they are by now; the buttons whose check was reached,
\* those whose trigger matched, and those whose action was executed
Started(last, queue) ==
    [status |-> "running", last_trigger |-> last, queue |-> queue,
     evaluated |-> {}, attempted |-> {}, fired |-> {}]

\* controller_cmd_tx.send(command).await: the command is queued when there
\* is room; when there is none the send waits for the receiver, which is
\* the loop that awaits this very call
send(run, command) ==
    IF run.status # "running" THEN run
    ELSE IF Len(run.queue) < CHANNEL_CAPACITY
    THEN [run EXCEPT !.queue = Append(@, command)]
    ELSE [run EXCEPT !.status = "blocked"]

\* Executor::trigger_rumble
trigger_rumble(run, rumble) ==
    send(run, SetRumbleCommand(rumble[1], rumble[2], rumble[3]))

\* Executor::execute_action.  The shell command, the WebSocket message and
\* the HTTP request come first and return their error with `?`; ws_send
\* tells how send_websocket_message ends: "none" (no sender: skipped),
\* "sent" or "failed"
execute_action(run, action, ws_send) ==
    IF run.status # "running" THEN run
    ELSE IF action.websocket /\ ws_send = "failed"
    THEN [run EXCEPT !.status = "err"]
    ELSE LET rumbled == IF action.rumble # None
                        THEN trigger_rumble(run, action.rumble[1])
                        ELSE run
         IN  IF action.led # None
             THEN send(rumbled, SetLedCommand(action.led[1][1],
                                              action.led[1][2],
                                              action.led[1][3]))
             ELSE rumbled

\* Executor::check_button_action at Instant::now() = t
check_button_action(run, config, name, prev, current, t, ws_send) ==
    LET reached == [run EXCEPT !.evaluated = @ \cup {name}]
        action_opt == config.buttons[name]
        action == action_opt[1]
        gate == can_trigger(run.last_trigger, name, action.debounce_ms, t)
    IN  IF run.status # "running" THEN run
        ELSE IF action_opt = None THEN reached
        ELSE IF ~should_trigger(from_str(action.trigger), prev, current)
        THEN reached
        ELSE IF ~gate.ok
        THEN [reached EXCEPT !.attempted = @ \cup {name},
                             !.last_trigger = gate.last_trigger]
        ELSE execute_action([reached EXCEPT
                                 !.attempted = @ \cup {name},
                                 !.fired = @ \cup {name},
                                 !.last_trigger = gate.last_trigger],
                            action, ws_send)

\* the nineteen calls of check_button_action, each followed by `.await?`
RECURSIVE CheckButtons(_, _, _, _, _, _, _)
CheckButtons(i, run, config, prev, current, t, ws_send) ==
    IF i > Len(ButtonOrder) THEN run
    ELSE CHOOSE result \in
             {CheckButtons(i + 1, checked, config, prev, current, t, ws_send) :
                  checked \in {check_button_action(
                                   run, config, ButtonOrder[i],
                                   prev.buttons[ButtonOrder[i]],
                                   current.buttons[ButtonOrder[i]],
                                   t, ws_send)}} : TRUE

\* for action in actions_to_execute { self.execute_action(..).await?; }
RECURSIVE ExecuteAll(_, _, _)
ExecuteAll(run, actions, ws_send) ==
    IF actions = <<>> THEN run
    ELSE CHOOSE result \in
             {ExecuteAll(executed, Tail(actions), ws_send) :
                  executed \in {execute_action(run, Head(actions),
                                               ws_send)}} : TRUE

\* comparisons of f32 values of which one may be NaN
Above(v, nan, threshold) == ~nan /\ v > threshold
Below(v, nan, threshold) == ~nan /\ v < threshold
AtMost(v, nan, threshold) == ~nan /\ v <= threshold
AtLeast(v, nan, threshold) == ~nan /\ v >= threshold

\* the actions one stick mapping collects and last_trigger afterwards; p
\* and c are the previous and the current stick, normalized
Collected(mapping, key, p, c, last, t) ==
    LET threshold == mapping.threshold
        moving == mapping.on_move # None /\ (c.nan \/ c.x # 0 \/ c.y # 0)
        gate == can_trigger(last, key, mapping.rate_limit_ms, t)
    IN  [actions |->
             (IF mapping.on_right # None /\ AtMost(p.x, p.nan, threshold)
                 /\ Above(c.x, c.nan, threshold)
              THEN mapping.on_right ELSE <<>>)
             \o (IF mapping.on_left # None
                    /\ AtLeast(p.x, p.nan, -threshold)
                    /\ Below(c.x, c.nan, -threshold)
                 THEN mapping.on_left ELSE <<>>)
             \o (IF mapping.on_up # None
                    /\ AtLeast(p.y, p.nan, -threshold)
                    /\ Below(c.y, c.nan, -threshold)
                 THEN mapping.on_up ELSE <<>>)
             \o (IF mapping.on_down # None
                    /\ AtMost(p.y, p.nan, threshold)
                    /\ Above(c.y, c.nan, threshold)
                 THEN mapping.on_down ELSE <<>>)
             \o (IF moving /\ gate.ok THEN mapping.on_move ELSE <<>>),
         last_trigger |-> IF moving THEN gate.last_trigger ELSE last]

\* if let Some(mapping) = &self.config.analog.left_stick { .. } and the
\* same for the right stick
StickCollect(mapping_opt, key, prev_stick, cur_stick, deadzone, last, t) ==
    IF mapping_opt = None THEN [actions |-> <<>>, last_trigger |-> last]
    ELSE CHOOSE result \in
             {Collected(mapping_opt[1], key, p, c, last, t) :
                  p \in {normalized_with_deadzone(prev_stick, deadzone)},
                  c \in {normalized_with_deadzone(cur_stick, deadzone)}} :
             TRUE

\* Executor::check_stick_actions
check_stick_actions(run, config, prev, current, t, ws_send) ==
    IF run.status # "running" THEN run
    ELSE CHOOSE result \in UNION
             {{ExecuteAll([run EXCEPT !.last_trigger = r.last_trigger],
                          l.actions \o r.actions, ws_send) :
                   r \in {StickCollect(config.analog.right_stick,
                                       "right_stick_move", prev.right_stick,
                                       current.right_stick, config.deadzone,
                                       l.last_trigger, t)}} :
                  l \in {StickCollect(config.analog.left_stick,
                                      "left_stick_move", prev.left_stick,
                                      current.left_stick, config.deadzone,
                                      run.last_trigger, t)}} : TRUE

\* the actions one trigger mapping collects
TriggerCollect(mapping_opt, p, c) ==
    IF mapping_opt = None THEN <<>>
    ELSE LET mapping == mapping_opt[1]
         IN  (IF mapping.on_press # None /\ p < mapping.threshold
                 /\ c >= mapping.threshold
              THEN mapping.on_press ELSE <<>>)
             \o (IF mapping.on_change # None /\ Abs(p - c) > FP \div 100
                 THEN mapping.on_change ELSE <<>>)

\* Executor::check_trigger_actions
check_trigger_actions(run, config, prev, current, ws_send) ==
    IF run.status # "running" THEN run
    ELSE
    LET p == triggers_normalized(prev.triggers)
        c == triggers_normalized(current.triggers)
    IN  ExecuteAll(run,
                   TriggerCollect(config.analog.l2_trigger, p.l2, c.l2)
                   \o TriggerCollect(config.analog.r2_trigger, p.r2, c.r2),
                   ws_send)

\* Executor::process_state_change(prev, current) at Instant::now() = t
process_state_change(config, last, queue, prev, current, t, ws_send) ==
    CHOOSE result \in
        {check_trigger_actions(sticks, config, prev, current, ws_send) :
             sticks \in
                 {check_stick_actions(buttons, config, prev, current, t,
                                      ws_send) :
                      buttons \in {CheckButtons(1, Started(last, queue),
                                                config, prev, current, t,
                                                ws_send)}}} : TRUE

\* ActionConfig: the trigger string, debounce_ms, whether there is a
\* WebSocket message, and the optional rumble and led feedback
Action(trigger, debounce_ms, websocket, rumble, led) ==
    [trigger |-> trigger, debounce_ms |-> debounce_ms,
     websocket |-> websocket, rumble |-> rumble, led |-> led]

NoButtons == [b \in ButtonNames |-> None]
NoAnalog ==
    [left_stick |-> None, right_stick |-> None, l2_trigger |-> None,
     r2_trigger |-> None]

\* led feedback only, one trigger string per button
TriggerTypesConfig ==
    [buttons |->
         ("cross" :> Some(Action("press", 0, FALSE, None,
                                 Some(<<0, 255, 0>>))))
         @@ ("circle" :> Some(Action("release", 0, FALSE, None,
                                     Some(<<0, 255, 0>>))))
         @@ ("square" :> Some(Action("hold", 0, FALSE, None,
                                     Some(<<0, 255, 0>>))))
         @@ ("triangle" :> Some(Action("change", 0, FALSE, None,
                                       Some(<<0, 255, 0>>))))
         @@ ("l1" :> Some(Action("HOLD", 0, FALSE, None,
                                 Some(<<255, 255, 255>>))))
         @@ ("r1" :> Some(Action("tap", 0, FALSE, None,
                                 Some(<<255, 255, 255>>))))
         @@ NoButtons,
     analog |-> NoAnalog,
     deadzone |-> FP \div 10]

\* debounced actions, one of them with a timed rumble
DebounceConfig ==
    [buttons |->
         ("cross" :> Some(Action("hold", 100, FALSE,
                                 Some(<<200, 100, 100>>), None)))
         @@ ("circle" :> Some(Action("press", 100, FALSE, None,
                                     Some(<<0, 255, 0>>))))
         @@ ("square" :> Some(Action("hold", 0, FALSE,
                                     Some(<<200, 100, 0>>), None)))
         @@ NoButtons,
     analog |-> NoAnalog,
     deadzone |-> FP \div 10]

\* a WebSocket message on the first button checked
WebSocketConfig ==
    [buttons |->
         ("cross" :> Some(Action("hold", 0, TRUE, None,
                                 Some(<<0, 255, 0>>))))
         @@ ("circle" :> Some(Action("hold", 0, FALSE,
                                     Some(<<0, 0, 0>>), None)))
         @@ NoButtons,
     analog |-> NoAnalog,
     deadzone |-> FP \div 10]

\* rumble and led feedback on every input
Feedback(trigger) ==
    Some(Action(trigger, 0, FALSE, Some(<<200, 100, 0>>),
                Some(<<0, 255, 0>>)))

FeedbackStick ==
    Some([on_right |-> Feedback("press"), on_left |-> Feedback("press"),
          on_up |-> Feedback("press"), on_down |-> Feedback("press"),
          on_move |-> Feedback("press"), threshold |-> FP \div 2,
          rate_limit_ms |-> 100])

FeedbackTrigger ==
    Some([on_change |-> Feedback("press"), on_press |-> Feedback("press"),
          threshold |-> FP \div 2])

FeedbackConfig ==
    [buttons |-> [b \in ButtonNames |-> Feedback("hold")],
     analog |-> [left_stick |-> FeedbackStick,
                 right_stick |-> FeedbackStick,
                 l2_trigger |-> FeedbackTrigger,
                 r2_trigger |-> FeedbackTrigger],
     deadzone |-> FP \div 10]

\* a configuration with no mapping at all
NoConfig ==
    [buttons |-> NoButtons, analog |-> NoAnalog, deadzone |-> FP \div 10]

MapperConfigs ==
    {TriggerTypesConfig, DebounceConfig, WebSocketConfig, FeedbackConfig}

\* what a poll can decode: the buttons held, both sticks, both triggers
PadWith(down, stick, trigger) ==
    [DefaultControllerState EXCEPT
         !.buttons = [b \in ButtonNames |-> b \in down],
         !.left_stick = stick,
         !.right_stick = stick,
         !.triggers = [l2 |-> trigger, r2 |-> trigger]]

Centred == [x |-> 128, y |-> 128]

\* every button the hat switch lets be down at once (up and right)
AllDown == ButtonNames \ {"dpad_down", "dpad_left"}

PadStates ==
    {PadWith({}, Centred, 0),
     PadWith({"cross", "circle"}, Centred, 0),
     PadWith({"square", "triangle", "l1", "r1"}, Centred, 0),
     PadWith(AllDown, [x |-> 255, y |-> 255], 255)}

\* how long an iteration of the loop takes, in ms, and the time the loop
\* is followed for
MapperTicks == {50, 200}
MaxMapperNow == 300

WsSends == {"none", "sent", "failed"}

\* the buttons whose action has a debounce time
Debounced(config) ==
    {b \in ButtonNames : /\ config.buttons[b] # None
                         /\ config.buttons[b][1].debounce_ms > 0}

\* no call of process_state_change yet.  A call leaves its outcome, the
\* buttons whose check it reached, those whose trigger matched and those
\* whose action it executed, its time, the times of the last executions
\* before it, and the buttons with a suppressed attempt since their last
\* execution, before and after it
NoCall ==
    [status |-> "none", evaluated |-> {}, attempted |-> {}, fired |-> {},
     at |-> 0, before |-> <<>>, waiting_before |-> {}, waiting |-> {}]

\* no rumble command yet
NoRumbleCommand ==
    [left |-> 0, right |-> 0, duration_ms |-> 0, done |-> FALSE,
     connected |-> TRUE]

NoMapper ==
    /\ frontend = "none"
    /\ ex_config = NoConfig
    /\ ex_prev = DefaultControllerState
    /\ ex_cur = DefaultControllerState
    /\ last_trigger = <<>>
    /\ cmd_queue = <<>>
    /\ mapper_pc = "idle"
    /\ ex_call = NoCall
    /\ last_exec = <<>>
    /\ timers = {}
    /\ rumble_cmd = NoRumbleCommand
    /\ desk_connected = FALSE

\* Ok(_) => { .. executor.process_state_change(&prev_state,
\* &current_state).await .. } with dry_run off: the poll decoded pad_state;
\* the call returns, or waits on the full channel for good
MapperPollOk ==
    \E pad_state \in PadStates, d \in MapperTicks, ws_send \in WsSends :
        /\ frontend = "mapper"
        /\ mapper_pc = "poll"
        /\ now + d <= MaxMapperNow
        /\ now' = now + d
        /\ ex_prev' = ex_cur
        /\ ex_cur' = pad_state
        /\ LET run == process_state_change(ex_config, last_trigger,
                                           cmd_queue, ex_cur, pad_state,
                                           now + d, ws_send)
           IN  /\ last_trigger' = run.last_trigger
               /\ cmd_queue' = run.queue
               /\ ex_call' = [status |-> IF run.status = "running"
                                         THEN "ok" ELSE run.status,
                              evaluated |-> run.evaluated,
                              attempted |-> run.attempted,
                              fired |-> run.fired,
                              at |-> now + d,
                              before |-> last_exec,
                              waiting_before |-> ex_call.waiting,
                              waiting |-> (ex_call.waiting
                                           \cup run.attempted)
                                          \ run.fired]
               /\ last_exec' = [b \in Debounced(ex_config) \cap run.fired
                                     |-> now + d] @@ last_exec
               /\ mapper_pc' = IF run.status = "blocked" THEN "send"
                               ELSE "cmds"
        /\ UNCHANGED <<deviceVars, outVars, pollVars, loopVars, codecVars,
                       shapeVars, spatialVars, filterVars, wsVars, lockVars,
                       frontend, ex_config, timers, rumble_cmd,
                       desk_connected>>

\* Err(DualSenseError::Timeout) => {}
MapperPollTimeout ==
    \E d \in MapperTicks :
        /\ frontend = "mapper"
        /\ mapper_pc = "poll"
        /\ now + d <= MaxMapperNow
        /\ now' = now + d
        /\ mapper_pc' = "cmds"
        /\ UNCHANGED <<deviceVars, outVars, pollVars, loopVars, codecVars,
                       shapeVars, spatialVars, filterVars, wsVars, lockVars,
                       frontend, ex_config, ex_prev, ex_cur, last_trigger,
                       cmd_queue, ex_call, last_exec, timers, rumble_cmd,
                       desk_connected>>

\* the sleeping task a rumble command with a duration spawns: when it
\* wakes, and whether it then stops the motors
Sleeper(until, stops) == [until |-> until, stops |-> stops, latest |-> TRUE]

Superseded(tasks) == {[task EXCEPT !.latest = FALSE] : task \in tasks}

\* the state of the command handling: the output state, the reports
\* written, the sleeping tasks and the last rumble command
RECURSIVE HandleCommands(_, _, _, _)
HandleCommands(conn, commands, t, h) ==
    IF commands = <<>> THEN h
    ELSE
    LET command == Head(commands)
        a == command.args
        sent == IF command.cmd = "SetLed"
                THEN set_led_color(conn, h.output, a[1], a[2], a[3])
                ELSE set_rumble(conn, h.output, a[1], a[2])
        timed == command.cmd = "SetRumble" /\ a[3] > 0
    IN  CHOOSE result \in {HandleCommands(conn, Tail(commands), t, handled) :
            handled \in {
            [output  |-> sent.output,
             reports |-> h.reports \o sent.reports,
             timers  |-> IF timed
                         THEN Superseded(h.timers)
                              \cup {Sleeper(t + a[3], FALSE)}
                         ELSE IF command.cmd = "SetRumble"
                         THEN Superseded(h.timers)
                         ELSE h.timers,
             rumble  |-> IF command.cmd = "SetRumble"
                         THEN [left |-> a[1], right |-> a[2],
                               duration_ms |-> a[3], done |-> FALSE,
                               connected |-> TRUE]
                         ELSE h.rumble]}} : TRUE

\* while let Ok(cmd) = cmd_rx.try_recv() { .. }: every queued command is
\* handled
MapperCommands ==
    /\ frontend = "mapper"
    /\ mapper_pc = "cmds"
    /\ LET h == HandleCommands(connection_type, cmd_queue, now,
                               [output |-> output_state, reports |-> <<>>,
                                timers |-> timers, rumble |-> rumble_cmd])
       IN  /\ Write("commands", Sent(h.reports, h.output))
           /\ timers' = h.timers
           /\ rumble_cmd' = h.rumble
    /\ cmd_queue' = <<>>
    /\ mapper_pc' = "poll"
    /\ UNCHANGED <<deviceVars, now, pollVars, loopVars, codecVars,
                   shapeVars, spatialVars, filterVars, wsVars, lockVars,
                   frontend, ex_config, ex_prev, ex_cur, last_trigger,
                   ex_call, last_exec, desk_connected>>

\* a sleeping task wakes once its time has come.  The task of run_mapper
\* ends there; the task of the desktop shell takes the controller lock and
\* calls set_rumble(0, 0) when a controller is held
TimerDone ==
    \E task \in timers :
        /\ now >= task.until
        /\ timers' = timers \ {task}
        /\ rumble_cmd' = IF task.latest
                         THEN [rumble_cmd EXCEPT !.done = TRUE]
                         ELSE rumble_cmd
        /\ IF task.stops /\ desk_connected
           THEN Write("set_rumble",
                      set_rumble(connection_type, output_state, 0, 0))
           ELSE UNCHANGED outVars
        /\ UNCHANGED <<deviceVars, now, pollVars, loopVars, codecVars,
                       shapeVars, spatialVars, filterVars, wsVars, lockVars,
                       frontend, ex_config, ex_prev, ex_cur, last_trigger,
                       cmd_queue, mapper_pc, ex_call, last_exec,
                       desk_connected>>

\* the durations the desktop front end passes: none, zero, 100 ms
DesktopDurations == {None, Some(0), Some(100)}

\* set_rumble of the desktop shell (a tauri command)
DesktopSetRumble ==
    \E r \in Rumbles, duration_ms \in DesktopDurations :
        /\ frontend = "desktop"
        /\ IF desk_connected
           THEN Write("set_rumble",
                      set_rumble(connection_type, output_state, r[1], r[2]))
           ELSE UNCHANGED outVars
        /\ LET ms == IF duration_ms = None THEN 0 ELSE duration_ms[1]
           IN  /\ timers' = IF ms > 0
                            THEN Superseded(timers)
                                 \cup {Sleeper(now + ms, TRUE)}
                            ELSE Superseded(timers)
               /\ rumble_cmd' = [left |-> r[1], right |-> r[2],
                                 duration_ms |-> ms, done |-> FALSE,
                                 connected |-> desk_connected]
        /\ UNCHANGED <<deviceVars, now, pollVars, loopVars, codecVars,
                       shapeVars, spatialVars, filterVars, wsVars, lockVars,
                       frontend, ex_config, ex_prev, ex_cur, last_trigger,
                       cmd_queue, mapper_pc, ex_call, last_exec,
                       desk_connected>>

\* the polling thread of the desktop shell meets an error:
\* *controller_guard = None drops the controller
DesktopDisconnect ==
    /\ frontend = "desktop"
    /\ desk_connected
    /\ desk_connected' = FALSE
    /\ rumble_cmd' = [rumble_cmd EXCEPT !.connected = FALSE]
    /\ Write("drop", drop(connection_type, output_state))
    /\ UNCHANGED <<deviceVars, now, pollVars, loopVars, codecVars,
                   shapeVars, spatialVars, filterVars, wsVars, lockVars,
                   frontend, ex_config, ex_prev, ex_cur, last_trigger,
                   cmd_queue, mapper_pc, ex_call, last_exec, timers>>

\* time passes in the desktop shell
DesktopTick ==
    \E d \in MapperTicks :
        /\ frontend = "desktop"
        /\ now + d <= MaxMapperNow
        /\ now' = now + d
        /\ UNCHANGED <<deviceVars, outVars, pollVars, loopVars, codecVars,
                       shapeVars, spatialVars, filterVars, wsVars, lockVars,
                       mapperVars>>

(***************************************************************************)
(* One setter of DualSense, statement by statement                         *)
(***************************************************************************)
\* no setter under way
NoSetter == [pc |-> "idle", name |-> "none", mutated |-> DefaultOutputState]

NoLock ==
    /\ setter = NoSetter
    /\ lock_held = FALSE

\* the calls a holder of the controller makes: the setter, and the cached
\* state as the block under the first lock leaves it
SetterCalls(output) ==
    {[name |-> "set_led_color",
      mutated |-> [output EXCEPT !.led_color = c,
                                 !.lightbar_enabled = TRUE]] : c \in Colors}
    \cup {[name |-> "set_rumble",
           mutated |-> [output EXCEPT !.rumble = r]] : r \in Rumbles}
    \cup {[name |-> "set_l2_trigger_effect",
           mutated |-> [output EXCEPT !.l2_effect = continuous(200)]],
          [name |-> "set_r2_trigger_effect",
           mutated |-> [output EXCEPT !.r2_effect = continuous(200)]],
          [name |-> "set_trigger_effects",
           mutated |-> [output EXCEPT !.l2_effect = DefaultTriggerEffect,
                                      !.r2_effect = DefaultTriggerEffect]],
          [name |-> "set_player_leds",
           mutated |-> [output EXCEPT !.player_leds = from_player(1)]],
          [name |-> "set_mute_led",
           mutated |-> [output EXCEPT !.mute_led = "Breathing"]]}
    \cup {[name |-> "apply_output_state", mutated |-> new_state] :
              new_state \in Profiles}

SetterStep(next) ==
    /\ setter' = [setter EXCEPT !.pc = next]
    /\ UNCHANGED <<deviceVars, now, pollVars, loopVars, codecVars, shapeVars,
                   spatialVars, filterVars, wsVars, mapperVars>>

\* let mut output = self.output_state.lock().unwrap(); at the top of the
\* block of a setter
SetterLock ==
    /\ setter.pc = "idle"
    /\ ~lock_held
    /\ lock_held' = TRUE
    /\ \E call \in SetterCalls(output_state) :
           setter' = [pc |-> "mutate", name |-> call.name,
                      mutated |-> call.mutated]
    /\ UNCHANGED <<deviceVars, outVars, now, pollVars, loopVars, codecVars,
                   shapeVars, spatialVars, filterVars, wsVars, mapperVars>>

\* the assignments to the fields of the guarded state
SetterMutate ==
    /\ setter.pc = "mutate"
    /\ output_state' = setter.mutated
    /\ SetterStep("unlock")
    /\ UNCHANGED <<op, written, prev_seq, lock_held>>

\* the block ends: the guard is dropped
SetterUnlock ==
    /\ setter.pc = "unlock"
    /\ lock_held' = FALSE
    /\ SetterStep("send")
    /\ UNCHANGED outVars

\* let mut output = self.output_state.lock().unwrap(); at the top of
\* send_output_report
ReportLock ==
    /\ setter.pc = "send"
    /\ ~lock_held
    /\ lock_held' = TRUE
    /\ SetterStep("write")
    /\ UNCHANGED outVars

\* the report is built from the guarded state and written; on Bluetooth
\* the guarded sequence counter is advanced
ReportWrite ==
    /\ setter.pc = "write"
    /\ Write(setter.name, send_output_report(connection_type, output_state))
    /\ SetterStep("return")
    /\ UNCHANGED lock_held

\* send_output_report returns: the guard is dropped
ReportUnlock ==
    /\ setter.pc = "return"
    /\ lock_held' = FALSE
    /\ SetterStep("idle")
    /\ UNCHANGED outVars

\* everything outside the connection, before it is used
NoApp == NoShape /\ NoSpatial /\ NoFilter /\ NoWs /\ NoMapper /\ NoLock

(***************************************************************************)
(* Specifications                                                          *)
(***************************************************************************)
\* a DualSense as find_and_connect returns it (the transport is fixed at
\* connect time), nothing read or written yet
InitConnection ==
    /\ connection_type \in ConnectionType
    /\ state = DefaultControllerState
    /\ prev_state = DefaultControllerState
    /\ filter_q = IdentityQuat
    /\ last_update = 0
    /\ output_state = DefaultOutputState
    /\ op = [name |-> "none", changed |-> FALSE]
    /\ written = <<>>
    /\ prev_seq = -1
    /\ now = 0
    /\ read = NoRead
    /\ poll_result = "none"
    /\ ok_prev = DefaultControllerState
    /\ ok_last = DefaultControllerState

NoCodec ==
    /\ codec_in = 0
    /\ codec_fn = "none"
    /\ dpad_out = DpadOf(DefaultButtons)
    /\ pct_out = [panic |-> FALSE, value |-> 0]

NoLoop ==
    /\ loop = "none"
    /\ pc = "idle"
    /\ running = TRUE
    /\ handle = 1
    /\ inst = 1
    /\ dead = {}
    /\ polled_dead = FALSE

Init == InitConnection /\ NoLoop /\ NoCodec /\ NoApp

\* the input side of a connection: polls as time passes
Next == Poll \/ Tick

Spec == Init /\ [][Next]_vars

\* the output side of a connection: any sequence of setter calls
NextOutput ==
    \/ SetLedColor
    \/ SetRumble
    \/ SetL2TriggerEffect
    \/ SetR2TriggerEffect
    \/ SetTriggerEffects
    \/ SetPlayerLeds
    \/ SetPlayerNumber
    \/ SetMuteLed
    \/ ApplyOutputState

SpecOutput == Init /\ [][NextOutput]_vars

\* a loop around a connection; the desktop shell starts with no controller
InitLoop ==
    /\ InitConnection
    /\ NoCodec
    /\ NoApp
    /\ loop \in Loops
    /\ pc = IF loop = "desktop" THEN "check" ELSE "start"
    /\ running = TRUE
    /\ handle = IF loop = "desktop" THEN 0 ELSE 1
    /\ inst = IF loop = "desktop" THEN 0 ELSE 1
    /\ dead = {}
    /\ polled_dead = FALSE

NextLoop ==
    \/ LoopStart
    \/ LoopCheck
    \/ LoopPoll
    \/ LoopMatchOk
    \/ LoopMatchTimeout
    \/ LoopMatchErrBreak
    \/ LoopMatchErrDiscard
    \/ LoopCmds
    \/ LoopSleep
    \/ LoopClose
    \/ Stop
    \/ Connect

SpecLoop == InitLoop /\ [][NextLoop]_vars

\* the codec's functions on every byte
InitCodec ==
    /\ InitConnection
    /\ NoLoop
    /\ NoApp
    /\ codec_in \in Byte
    /\ codec_fn = "none"
    /\ dpad_out = DpadOf(DefaultButtons)
    /\ pct_out = [panic |-> FALSE, value |-> 0]

NextCodec == DecodeDpad \/ BatteryPercentage

SpecCodec == InitCodec /\ [][NextCodec]_vars

\* the shaping functions on every input of ShapeInputs
InitShape ==
    /\ InitConnection
    /\ NoLoop
    /\ NoCodec
    /\ NoSpatial
    /\ NoFilter
    /\ NoWs
    /\ shape_in \in ShapeInputs
    /\ shape_out = [fn |-> "none"]
    /\ NoMapper
    /\ NoLock

NextShape ==
    \/ EncodeTrigger
    \/ NormalizeStick
    \/ NormalizeStickWithDeadzone
    \/ NormalizeTriggers
    \/ ApplyDeadzone
    \/ ApplyCurve

SpecShape == InitShape /\ [][NextShape]_vars

\* a spatial state as SpatialState::new returns it, with the frame time of
\* the loop that drives it
AroundSpatial ==
    /\ InitConnection
    /\ NoLoop
    /\ NoCodec
    /\ NoShape
    /\ NoFilter
    /\ NoWs
    /\ NoMapper
    /\ NoLock

\* a spatial state as SpatialState::new returns it for one of configs
NewSpatial(configs) ==
    /\ \E config \in configs : spatial = new(config)
    /\ snap = NoSnapshot
    /\ spatial_dt \in Dts
    /\ pad = DefaultControllerState
    /\ spatial_op = [name |-> "none", on |-> "none"]
    /\ released = FALSE

FreshSpatial == AroundSpatial /\ NewSpatial(Configs)

InitSpatial ==
    /\ AroundSpatial
    /\ NewSpatial(Configs \cup CurveConfigs)
    /\ spatial_left = MaxSpatialOps

\* the spatial state, its snapshot, and the calls made on both
NextSpatial ==
    \/ Integrate
    \/ SetMode
    \/ Reset
    \/ ResetPosition
    \/ ResetOrientation
    \/ Snapshot
    \/ SnapIntegrate
    \/ SnapSetMode
    \/ SnapReset

SpecSpatial == InitSpatial /\ [][NextSpatial]_vars

\* the spatial state driven for a while and then left alone
InitDecay == FreshSpatial /\ spatial_left = MaxDriven

NextDecay == Integrate \/ SetMode \/ Release

\* the poll loop keeps calling integrate after sticks and triggers are let go
SpecDecay ==
    InitDecay /\ [][NextDecay]_vars /\ WF_vars(released /\ Integrate)

\* a filter as MadgwickFilter::new returns it, updated MaxUpdates times
InitFilter ==
    /\ InitConnection
    /\ NoLoop
    /\ NoCodec
    /\ NoShape
    /\ NoSpatial
    /\ NoWs
    /\ madgwick_q = IdentityQuat
    /\ madgwick_in = [gyro |-> NoRate, accel |-> NoRate, dt |-> 0]
    /\ madgwick_left = MaxUpdates
    /\ gravity_only = TRUE
    /\ NoMapper
    /\ NoLock

NextFilter == Update

SpecFilter == InitFilter /\ [][NextFilter]_vars

MaxReconnectAttempts == 0..3

\* a manager as WebSocketManager::new returns it, with any configuration
InitWs ==
    /\ InitConnection
    /\ NoLoop
    /\ NoCodec
    /\ NoShape
    /\ NoSpatial
    /\ NoFilter
    /\ ws_config \in [reconnect : BOOLEAN,
                      max_reconnect_attempts : MaxReconnectAttempts]
    /\ ws = NotRun
    /\ ws_running = TRUE
    /\ ws_history = <<>>
    /\ ws_exit = "none"
    /\ NoMapper
    /\ NoLock

NextWs ==
    \/ WsRun
    \/ WsWhile
    \/ WsConnected
    \/ WsFailed
    \/ WsDisconnected
    \/ WsAfter
    \/ WsSlept
    \/ WsStop

SpecWs == InitWs /\ [][NextWs]_vars

\* run_mapper with any of the configurations, or the desktop shell with a
\* controller connected, over USB
InitMapper ==
    /\ InitConnection
    /\ connection_type = Usb
    /\ NoLoop
    /\ NoCodec
    /\ NoShape
    /\ NoSpatial
    /\ NoFilter
    /\ NoWs
    /\ NoLock
    /\ frontend \in {"mapper", "desktop"}
    /\ ex_config \in IF frontend = "mapper" THEN MapperConfigs
                     ELSE {NoConfig}
    /\ ex_prev = DefaultControllerState
    /\ ex_cur = DefaultControllerState
    /\ last_trigger = <<>>
    /\ cmd_queue = <<>>
    /\ mapper_pc = "poll"
    /\ ex_call = NoCall
    /\ last_exec = <<>>
    /\ timers = {}
    /\ rumble_cmd = NoRumbleCommand
    /\ desk_connected = (frontend = "desktop")

NextMapper ==
    \/ MapperPollOk
    \/ MapperPollTimeout
    \/ MapperCommands
    \/ TimerDone
    \/ DesktopSetRumble
    \/ DesktopDisconnect
    \/ DesktopTick

SpecMapper == InitMapper /\ [][NextMapper]_vars

\* the setters of a connected controller, statement by statement
NextLock ==
    \/ SetterLock
    \/ SetterMutate
    \/ SetterUnlock
    \/ ReportLock
    \/ ReportWrite
    \/ ReportUnlock

SpecLock == Init /\ [][NextLock]_vars

(***************************************************************************)
(* Properties                                                              *)
(***************************************************************************)
\* upper four bits of a byte
HighNibble(b) == b \div 16

\* the sequence bytes of the reports written so far that matter here: the
\* one written last before the last operation, then those of the operation
SeqBytes ==
    (IF prev_seq = -1 THEN <<>> ELSE <<prev_seq>>)
    \o [i \in 1..Len(written) |-> At(written[i], 1)]

\* C1: on Bluetooth the sequence nibble of every written report (upper four
\* bits of byte 1, low bits 0x02) is the nibble of the report written
\* before it plus 1 modulo 16, and the cached counter stays in 0..15.
C1_SequenceNibbleIncrements ==
    connection_type = Bluetooth =>
        /\ output_state.bt_seq \in 0..15
        /\ \A i \in 1..Len(SeqBytes) : SeqBytes[i] % 16 = 2
        /\ \A i \in 2..Len(SeqBytes) :
              HighNibble(SeqBytes[i]) = (HighNibble(SeqBytes[i - 1]) + 1) % 16

\* the bytes of a report that carry the cached output fields
ReportFields(conn, report) ==
    LET o == IF conn = Usb THEN 0 ELSE 1
    IN  [rumble      |-> <<At(report, 4 + o), At(report, 3 + o)>>,
         mute_led    |-> At(report, 9 + o),
         r2_effect   |-> Slice(report, 11 + o, 22 + o),
         l2_effect   |-> Slice(report, 22 + o, 33 + o),
         lightbar    |-> At(report, 41 + o),
         player_leds |-> At(report, 44 + o),
         led_color   |-> Slice(report, 45 + o, 48 + o)]

\* the same bytes as the cached output state asks for them
CachedFields(output) ==
    [rumble      |-> output.rumble,
     mute_led    |-> MuteLedByte(output.mute_led),
     r2_effect   |-> to_bytes(output.r2_effect),
     l2_effect   |-> to_bytes(output.l2_effect),
     lightbar    |-> IF output.lightbar_enabled THEN 2 ELSE 1,
     player_leds |-> PlayerLedsByte(output.player_leds),
     led_color   |-> output.led_color]

\* C2: every output-setter call hands exactly one report to the device, and
\* that report carries the whole cached output state as it is after the
\* call, whether or not the call changed a field.
C2_SetterWritesWholeState ==
    op.name \in Setters =>
        /\ Len(written) = 1
        /\ Len(written[1]) = IF connection_type = Usb THEN 48 ELSE 78
        /\ ReportFields(connection_type, written[1])
              = CachedFields(output_state)

\* a setter call that changed no cached field and still wrote the frame,
\* with fields set by earlier calls in it
C2_Witness ==
    /\ op.name = "set_rumble"
    /\ ~op.changed
    /\ output_state.rumble = <<200, 100>>
    /\ output_state.mute_led = "Breathing"
    /\ Len(written) = 1
    /\ ReportFields(connection_type, written[1]).rumble = <<200, 100>>

\* C3: a poll whose read returns zero bytes returns Timeout and leaves the
\* current state, the previous-state snapshot, the orientation estimate and
\* the time of the last successful poll as they were.
C3_TimeoutChangesNothing ==
    [][(read' = ReadTimeout /\ now' = now) =>
          /\ poll_result' = "Timeout"
          /\ state' = state
          /\ prev_state' = prev_state
          /\ filter_q' = filter_q
          /\ last_update' = last_update]_vars

\* a Timeout at a moment when a change would show: the two cached states
\* differ and time has passed since the last successful poll
C3_Witness ==
    /\ poll_result = "Timeout"
    /\ read = ReadTimeout
    /\ state # prev_state
    /\ now > last_update
    /\ last_update > 0

\* C4: after every poll that returns Ok, prev_state is the value state had
\* just before that poll; so (prev_state, state) is always the pair of
\* states left by the last two polls that returned Ok.
C4_PrevStateIsPreviousPoll ==
    /\ [](prev_state = ok_prev /\ state = ok_last)
    /\ [][(now' = now /\ poll_result' = "Ok") => prev_state' = state]_vars

\* two different decoded states in the pair, still there after a timeout
C4_Witness ==
    /\ poll_result = "Timeout"
    /\ prev_state # state
    /\ prev_state # DefaultControllerState
    /\ state.buttons.cross
    /\ ~prev_state.buttons.cross

\* the last read carried the transport's own report id
RecognizedId == read.kind = "data" /\ read.n > 0
                /\ read.id = ExpectedId(connection_type)

\* C5: a report with the transport's report id that is shorter than the
\* transport's minimum length makes poll return InvalidReport.
C5_ShortReportIsInvalid ==
    (RecognizedId /\ read.n < ExpectedSize(connection_type))
        => poll_result = "InvalidReport"

\* C6: a report with another report id is a no-op frame: poll reports no
\* error and leaves the current state, the previous-state snapshot and the
\* orientation estimate as they were.
C6_UnexpectedIdIsNoOp ==
    [][(now' = now /\ read'.kind = "data" /\ read'.n > 0
        /\ read'.id # ExpectedId(connection_type)) =>
          /\ poll_result' = "Ok"
          /\ state' = state
          /\ prev_state' = prev_state
          /\ filter_q' = filter_q]_vars

\* C7: in every poll loop a Timeout neither ends the loop nor drops the
\* controller; any other poll error makes the loop exit or discard the
\* handle, and poll is never called again on an instance that returned
\* such an error.
C7_TimeoutAbsorbedErrorEndsUse ==
    /\ [](~polled_dead)
    /\ [][(pc = "match" /\ poll_result = "Timeout" /\ pc' # pc) =>
            (pc' = AfterMatch(loop) /\ handle' = handle /\ handle = 1)]_vars
    /\ [][(pc = "match" /\ poll_result \notin {"Ok", "Timeout"} /\ pc' # pc) =>
            (pc' = "close" \/ handle' = 0)]_vars

\* the desktop shell handling a Timeout of its second instance after the
\* first one was discarded on an error
C7_Witness ==
    /\ loop = "desktop"
    /\ dead = {1}
    /\ inst = 2
    /\ handle = 1
    /\ pc = "match"
    /\ poll_result = "Timeout"

\* everything parse_common_input decodes
Shared(st) == [st EXCEPT !.orientation = IdentityQuat]

OtherTransport(conn) == IF conn = Usb THEN Bluetooth ELSE Usb

\* the state a connection on transport conn decodes from its full input
\* report around payload k
DecodeOn(conn, k) ==
    LET buf == ReadBuffer(FrameOf(conn, ExpectedId(conn), k),
                          ExpectedSize(conn))
    IN  PollParse(conn, DefaultControllerState, buf, ExpectedSize(conn)).st

\* the last read was a full input report of the transport
FullReport == RecognizedId /\ read.n >= ExpectedSize(connection_type)

\* C8: the state decoded from a transport's input report equals, in every
\* shared field, the state the other transport decodes from its report
\* around the same payload.
C8_TransportsDecodeAlike ==
    (FullReport /\ poll_result = "Ok") =>
        Shared(state) = Shared(DecodeOn(OtherTransport(connection_type),
                                        read.payload))

\* a Bluetooth report around the payload whose bytes all differ
C8_Witness ==
    /\ connection_type = Bluetooth
    /\ FullReport
    /\ poll_result = "Ok"
    /\ read.payload = 3
    /\ state.left_stick = [x |-> 3, y |-> 8]
    /\ state.battery.level = 7

Dirs(up, right, down, left) ==
    [up |-> up, right |-> right, down |-> down, left |-> left]

\* the decoding the D-pad nibble is specified to have
DpadSpec(n) ==
    CASE n = 0 -> Dirs(TRUE, FALSE, FALSE, FALSE)
      [] n = 1 -> Dirs(TRUE, TRUE, FALSE, FALSE)
      [] n = 2 -> Dirs(FALSE, TRUE, FALSE, FALSE)
      [] n = 3 -> Dirs(FALSE, TRUE, TRUE, FALSE)
      [] n = 4 -> Dirs(FALSE, FALSE, TRUE, FALSE)
      [] n = 5 -> Dirs(FALSE, FALSE, TRUE, TRUE)
      [] n = 6 -> Dirs(FALSE, FALSE, FALSE, TRUE)
      [] n = 7 -> Dirs(TRUE, FALSE, FALSE, TRUE)
      [] OTHER -> Dirs(FALSE, FALSE, FALSE, FALSE)

\* C9: the low nibble of the first button byte decodes to up (0), right
\* (2), down (4), left (6), the two adjacent directions (1, 3, 5, 7) or
\* nothing (8..15); up and down, and left and right, are never both set.
C9_DpadDecoding ==
    codec_fn = "dpad" =>
        /\ dpad_out = DpadSpec(codec_in % 16)
        /\ ~(dpad_out.up /\ dpad_out.down)
        /\ ~(dpad_out.left /\ dpad_out.right)

\* the nibble for up-left, under face-button bits
C9_Witness ==
    /\ codec_fn = "dpad"
    /\ codec_in = 167
    /\ dpad_out = Dirs(TRUE, FALSE, FALSE, TRUE)

\* C10: Battery::percentage returns min(level * 10, 100) for every value of
\* the 8-bit level field, without arithmetic overflow.
C10_PercentageClamps ==
    codec_fn = "percentage" =>
        /\ ~pct_out.panic
        /\ pct_out.value = Min(codec_in * 10, 100)


(***************************************************************************)
(* Trigger effect encoding                                                 *)
(***************************************************************************)
\* C11: to_bytes yields 11 bytes whose byte 0 is the mode tag, from which
\* from_u8 recovers the effect's mode; a Continuous effect has its start
\* position at byte 1 and its force at byte 2; Off and Calibration have
\* bytes 1..10 all zero.
C11_TriggerBytesRoundTrip ==
    shape_out.fn = "to_bytes" =>
        LET e == shape_in.effect
            bytes == shape_out.bytes
        IN  /\ Len(bytes) = 11
            /\ \A i \in 0..10 : At(bytes, i) \in Byte
            /\ At(bytes, 0) = ModeTag(e.mode)
            /\ from_u8(At(bytes, 0)) = e.mode
            /\ shape_out.mode = e.mode
            /\ e.mode = "Continuous" =>
                   At(bytes, 1) = e.start_position /\ At(bytes, 2) = e.force
            /\ e.mode \in {"Off", "Calibration"} =>
                   \A i \in 1..10 : At(bytes, i) = 0

\* a Continuous effect with force 200 and a non-zero start, encoded
C11_Witness ==
    /\ shape_out.fn = "to_bytes"
    /\ shape_in.effect.mode = "Continuous"
    /\ shape_in.effect.force = 200
    /\ shape_in.effect.start_position = 30
    /\ At(shape_out.bytes, 2) = 200

(***************************************************************************)
(* Normalisation, deadzone and curves                                      *)
(***************************************************************************)
InUnit(v) == -FP <= v /\ v <= FP

\* C13: both components of Stick::normalized and of
\* Stick::normalized_with_deadzone lie in [-1, 1] for every raw pair and
\* every deadzone of [0, 1), raw 128 / 255 / 0 normalise to 0 / 1 / -1, and
\* Triggers::normalized lies in [0, 1] with 0 -> 0 and 255 -> 1.
C13_NormalizedInRange ==
    /\ shape_out.fn \in {"normalized", "normalized_with_deadzone"} =>
           /\ ~shape_out.xy.nan
           /\ InUnit(shape_out.xy.x)
           /\ InUnit(shape_out.xy.y)
    /\ shape_out.fn = "normalized" =>
           /\ shape_in.stick.x = 128 => shape_out.xy.x = 0
           /\ shape_in.stick.x = 255 => shape_out.xy.x = FP
           /\ shape_in.stick.x = 0 => shape_out.xy.x = -FP
    /\ shape_out.fn = "triggers_normalized" =>
           /\ 0 <= shape_out.lr.l2 /\ shape_out.lr.l2 <= FP
           /\ 0 <= shape_out.lr.r2 /\ shape_out.lr.r2 <= FP
           /\ shape_in.triggers.l2 = 0 => shape_out.lr.l2 = 0
           /\ shape_in.triggers.l2 = 255 => shape_out.lr.l2 = FP

\* C14: apply_deadzone(v, dz) is 0 when |v| < dz and otherwise
\* sign(v) * (|v| - dz) / (1 - dz): 0 at |v| = dz, of magnitude 1 at
\* |v| = 1 for every dz, never of the opposite sign of v, within [-1, 1].
C14_DeadzoneRescales ==
    shape_out.fn = "apply_deadzone" =>
        LET v == shape_in.value
            dz == shape_in.deadzone
            out == shape_out.value
        IN  /\ Abs(v) < dz => out = 0
            /\ Abs(v) >= dz =>
                   out = Signum(v) * Div((Abs(v) - dz) * FP, FP - dz)
            /\ Abs(v) = dz => out = 0
            /\ Abs(v) = FP => Abs(out) = FP
            /\ out * v >= 0
            /\ InUnit(out)

\* full negative deflection with a non-zero deadzone
C14_Witness ==
    /\ shape_out.fn = "apply_deadzone"
    /\ shape_in.deadzone = 120
    /\ shape_in.value = -FP
    /\ shape_out.value = -FP

\* C15: every velocity curve is odd and sign-preserving on [-1, 1]:
\* apply(-x) = -apply(x), apply(x) is never of the opposite sign of x,
\* Linear(x) = x, Quadratic(x) = sign(x) * x^2, Cubic(x) = x^3
\* (Cubic(0.5) = 0.125).
C15_CurvesOddAndSignPreserving ==
    shape_out.fn = "apply" =>
        LET x == shape_in.input
            y == shape_out.value
        IN  /\ shape_out.mirrored = -y
            /\ x > 0 => y > 0
            /\ x < 0 => y < 0
            /\ x = 0 => y = 0
            /\ shape_in.curve = "Linear" => y = x
            /\ shape_in.curve = "Quadratic" =>
                   y = Signum(x) * Div(x * x, FP)
            /\ shape_in.curve = "Cubic" => y = Div(x * x * x, FP * FP)
            /\ shape_in.curve = "Cubic" /\ x = FP \div 2 => y = FP \div 8

\* the cubic curve at -0.5
C15_Witness ==
    /\ shape_out.fn = "apply"
    /\ shape_in.curve = "Cubic"
    /\ shape_in.input = -(FP \div 2)
    /\ shape_out.value = -(FP \div 8)


(***************************************************************************)
(* Bluetooth checksum                                                      *)
(***************************************************************************)
\* C12: the last four bytes (74..77) of every Bluetooth output report are the
\* little-endian CRC32 of the bytes 0xA2, 0x31 followed by bytes 0..73 of
\* that same 78-byte frame, sequence byte included.
C12_BluetoothCrcCoversFrame ==
    connection_type = Bluetooth =>
        \A n \in 1..Len(written) :
            LET report == written[n]
            IN  /\ Len(report) = BT_REPORT_SIZE
                /\ Slice(report, 74, 78)
                       = ToLeBytes(Crc32(<<162, 49>> \o Slice(report, 0, 74)))

\* a Bluetooth report with a non-zero sequence nibble and rumble set
C12_Witness ==
    /\ connection_type = Bluetooth
    /\ Len(written) = 1
    /\ HighNibble(At(written[1], 1)) = 3
    /\ At(written[1], 4) = 100
    /\ Slice(written[1], 74, 78) # <<0, 0, 0, 0>>


(***************************************************************************)
(* Spatial integration                                                     *)
(***************************************************************************)
\* an integrate call on the spatial state with sticks centred and triggers
\* released, in a mode that goes through update_velocity_and_position
ZeroInputStep ==
    /\ spatial_op'.name = "integrate"
    /\ spatial_op'.on = "spatial"
    /\ <<spatial, pad, spatial_op, spatial_left>>
           # <<spatial', pad', spatial_op', spatial_left'>>
    /\ pad' \in ZeroInputs
    /\ spatial.mode \in DampedModes

\* C16: in Standard, Heading, AxiDraw and ThreeD modes, with sticks centred
\* and triggers released on every tick at a fixed dt and linear damping
\* below 1, no velocity component grows in magnitude from one integrate call
\* to the next, the position stands still once the velocity is zero, and
\* after finitely many calls the velocity is exactly zero.
C16_VelocityDecaysToZero ==
    /\ [][ZeroInputStep =>
            /\ \A i \in 1..3 :
                   Abs(spatial'.velocity[i]) <= Abs(spatial.velocity[i])
            /\ spatial'.velocity = Zero3 =>
                   spatial'.position = spatial.position
                   \/ pad'.buttons.options]_vars
    /\ (released /\ spatial.mode \in DampedModes)
           ~> (spatial.velocity = Zero3)

\* sticks let go while the state is moving in a damped mode
C16_Witness ==
    /\ released
    /\ spatial.mode = "Heading"
    /\ spatial.velocity # Zero3
    /\ spatial.config.linear_damping < FP
    /\ spatial_op.name = "integrate"
    /\ pad \in ZeroInputs

\* C17: an integrate call for a controller at rest with Options pressed ends,
\* in every mode, with the position at the origin, the velocity zero and the
\* orientation identity.
C17_OptionsResetsAtRest ==
    [][(Integrate /\ pad' \in AtRest /\ pad'.buttons.options) =>
           /\ spatial'.position = Zero3
           /\ spatial'.velocity = Zero3
           /\ spatial'.orientation = IdentityQuat]_vars

\* a step that is the given call on the given state
CallOf(name, on) ==
    /\ spatial_left' < spatial_left
    /\ spatial_op' = [name |-> name, on |-> on]

SnapshotFields ==
    {"mode", "position", "velocity", "linear_accel", "angular_velocity",
     "smoothed_velocity", "orientation", "axidraw_force_type"}

\* C18: snapshot returns a state whose mode, position, velocity, linear
\* acceleration, angular velocity, smoothed velocity, orientation and
\* force-type tag equal the source's and leaves the source as it is; a later
\* integrate, reset or set_mode on either of the two leaves the other
\* unchanged.
C18_SnapshotIndependentCopy ==
    [][/\ CallOf("snapshot", "spatial") =>
              /\ \A f \in SnapshotFields : snap'[f] = spatial[f]
              /\ spatial' = spatial
       /\ (\E name \in {"integrate", "reset", "set_mode"} :
               CallOf(name, "spatial")) => snap' = snap
       /\ (\E name \in {"integrate", "reset", "set_mode"} :
               CallOf(name, "snap")) => spatial' = spatial]_vars

\* a snapshot taken of a moving state, and the source integrated further
C18_Witness ==
    /\ snap # NoSnapshot
    /\ snap.smoothed_velocity # Zero3
    /\ snap.position # Zero3
    /\ spatial.position # snap.position
    /\ spatial_op = [name |-> "integrate", on |-> "spatial"]

\* C19: from the identity quaternion, updates with zero angular rate and
\* 1 G on the z axis return the identity quaternion every time, whatever dt
\* in (0, 1) s; and the quaternion has unit length after every update (to
\* the resolution of the fixed-point arithmetic).
C19_IdentityIsFixedPoint ==
    /\ gravity_only => madgwick_q = IdentityQuat
    /\ Abs(QuatNormSq(madgwick_q) - FP * FP) <= 4 * FP

\* the last of MaxUpdates gravity-only updates, made with the longest dt
C19_Witness ==
    /\ gravity_only
    /\ madgwick_left = 0
    /\ madgwick_in = [gyro |-> NoRate, accel |-> OneG, dt |-> 999]

\* the number of "err" at the end of the outcomes of connect
RECURSIVE FailedInARow(_)
FailedInARow(history) ==
    IF history = <<>> \/ history[Len(history)] = "ok" THEN 0
    ELSE 1 + FailedInARow(SubSeq(history, 1, Len(history) - 1))

\* C20: the count of failures is the number of attempts that failed in a
\* row (a successful connection resets it to zero); with
\* max_reconnect_attempts = N > 0 run has returned as soon as N attempts in
\* a row have failed, and it returns for that reason in no other case; with
\* N = 0 run returns only because the running flag was cleared or reconnect
\* is off, and goes on to the delay while the flag is set.
C20_ReturnsAfterNFailuresInARow ==
    LET n == ws_config.max_reconnect_attempts
        failed == FailedInARow(ws_history)
    IN  /\ ws.pc \notin {"start", "messages", "returned"} =>
               ws.reconnect_attempts = failed
        /\ (n > 0 /\ failed >= n) => ws.pc = "returned"
        /\ ws_exit = "max_attempts" <=> (n > 0 /\ failed = n)
        /\ (ws.pc = "returned") = (ws_exit # "none")
        /\ (n = 0 /\ ws.pc = "returned") =>
               ws_exit \in {"stopped", "no_reconnect"}
        /\ (ws_exit = "stopped") => ~ws_running
        /\ (ws_exit = "no_reconnect") => ~ws_config.reconnect

\* two failures in a row end run with N = 2 after a failure, a success and
\* the delay in between
C20_Witness ==
    /\ ws_config.max_reconnect_attempts = 2
    /\ ws_history = <<"err", "ok", "err", "err">>
    /\ ws.pc = "returned"
    /\ ws_running

\* the trigger type the configuration gives a button: the four types, and
\* the unrecognized "tap"
ClaimedTypes == {"press", "release", "hold", "change", "tap"}

\* what each trigger type asks of a button that was down or up before and
\* is down or up now
Matches(trigger, was_down, is_down) ==
    CASE trigger = "release" -> was_down /\ ~is_down
      [] trigger = "hold" -> is_down
      [] trigger = "change" -> was_down # is_down
      [] OTHER -> ~was_down /\ is_down

\* the buttons with an action whose trigger string is one of ClaimedTypes
Typed ==
    {b \in ButtonNames : /\ ex_config.buttons[b] # None
                         /\ ex_config.buttons[b][1].trigger \in ClaimedTypes}

C22_DebounceWindow ==
    /\ \A b \in Debounced(ex_config) :
           LET D == ex_config.buttons[b][1].debounce_ms
               since == ex_call.at - ex_call.before[b]
           IN  /\ b \in ex_call.fired /\ b \in DOMAIN ex_call.before
                      => since >= D
               /\ b \in ex_call.attempted \ ex_call.fired
                      => b \in DOMAIN ex_call.before /\ since < D
    /\ \A b \in ButtonNames \ Debounced(ex_config) :
           b \in ex_call.attempted => b \in ex_call.fired

\* a debounced hold action is executed again exactly D ms after its last
\* execution, after an attempt in between was suppressed, in a call that
\* also executes an action without debounce
C22_Witness ==
    /\ ex_config = DebounceConfig
    /\ "cross" \in ex_call.fired
    /\ "cross" \in ex_call.waiting_before
    /\ "cross" \in DOMAIN ex_call.before
    /\ ex_call.at - ex_call.before["cross"] = 100
    /\ "square" \in ex_call.fired

\* C23: once the time of a rumble command with duration_ms > 0 has elapsed
\* (its sleeping task has woken and ended) and no rumble command has been
\* handled since, the motors are back at (0, 0), as long as the controller
\* stayed connected; for run_mapper and for the desktop shell alike
C23_RumbleStopsAfterDuration ==
    rumble_cmd.duration_ms > 0 /\ rumble_cmd.done /\ rumble_cmd.connected
        => output_state.rumble = <<0, 0>>

\* C30: process_state_change always returns: no send of a controller
\* command waits on the full command channel, whatever the configuration
\* and the controller state
C30_ProcessStateChangeReturns ==
    /\ ex_call.status # "blocked"
    /\ mapper_pc # "send"

\* C24: in every setter call the mutation of the cached output state and
\* the serialization and write of the report lie inside one critical
\* section of the output-state lock (the lock is held from the mutation
\* until the report is written), and the report written carries the value
\* the setter has just set
C24_OneCriticalSection ==
    /\ setter.pc \in {"unlock", "send", "write"} => lock_held
    /\ setter.pc = "return" =>
           /\ Len(written) = 1
           /\ ReportFields(connection_type, written[1])
                  = CachedFields(setter.mutated)

\* the fields of the cached output state each individual setter is named for
NamedFields(name) ==
    CASE name = "set_led_color" -> {"led_color"}
      [] name = "set_rumble" -> {"rumble"}
      [] name = "set_l2_trigger_effect" -> {"l2_effect"}
      [] name = "set_r2_trigger_effect" -> {"r2_effect"}
      [] name = "set_trigger_effects" -> {"l2_effect", "r2_effect"}
      [] name = "set_player_leds" -> {"player_leds"}
      [] name = "set_player_number" -> {"player_leds"}
      [] name = "set_mute_led" -> {"mute_led"}

IndividualSetters == Setters \ {"apply_output_state"}

OutputFields == DOMAIN DefaultOutputState

\* the call of an individual setter leaves every field outside `changing`
\* as it was
Keeps(changing(_)) ==
    op'.name \in IndividualSetters =>
        \A f \in OutputFields \ changing(op'.name) :
            output_state'[f] = output_state[f]

\* C25 as stated: each individual setter changes only the cached output
\* field it is named for and leaves every other field of the cached output
\* state unchanged
C25_SetterChangesOnlyItsField ==
    [][Keeps(NamedFields)]_vars

\* what a setter may change besides the field it is named for: set_led_color
\* switches the lightbar on, and on Bluetooth every report advances bt_seq
AlsoChanged(name) ==
    NamedFields(name)
    \cup (IF name = "set_led_color" THEN {"lightbar_enabled"} ELSE {})
    \cup (IF connection_type = Bluetooth THEN {"bt_seq"} ELSE {})

\* C25, amended: each individual setter changes only the field it is named
\* for, except that set_led_color also sets lightbar_enabled to true and
\* that on Bluetooth every setter advances bt_seq by one modulo 16; every
\* other field of the cached output state is left unchanged
C25_SetterFrame ==
    [][/\ Keeps(AlsoChanged)
       /\ op'.name \in IndividualSetters =>
              /\ op'.name = "set_led_color" => output_state'.lightbar_enabled
              /\ output_state'.bt_seq =
                     IF connection_type = Bluetooth
                     THEN (output_state.bt_seq + 1) % 16
                     ELSE output_state.bt_seq]_vars

\* set_mute_led on Bluetooth has changed the mute LED and left the colour,
\* the motors and a lightbar that a profile had switched off as they were
C25_Witness ==
    /\ connection_type = Bluetooth
    /\ op.name = "set_mute_led"
    /\ op.changed
    /\ output_state.mute_led = "Off"
    /\ output_state.rumble = <<200, 100>>
    /\ output_state.led_color = <<0, 255, 0>>
    /\ ~output_state.lightbar_enabled
    /\ output_state.bt_seq = 4

\* C26: a poll that returns Ok runs the orientation filter only when the time
\* since the reference time is more than zero and less than one second;
\* otherwise the filter and the orientation keep their values, while the
\* decoded fields are those of the report and the reference time becomes the
\* time of this poll in both cases.
C26_FilterOnlyWithinOneSecond ==
    [][(now' = now /\ poll_result' = "Ok") =>
          LET dt == now - last_update
          IN  /\ last_update' = now
              /\ FullReport' =>
                    Shared(state') = Shared(DecodeOn(connection_type,
                                                     read'.payload))
              /\ IF dt > 0 /\ dt < ONE_SECOND
                 THEN /\ filter_q' = MadgwickUpdate(filter_q,
                                         to_rad_per_sec(state'.gyroscope),
                                         to_g(state'.accelerometer), dt)
                      /\ state'.orientation = filter_q'
                 ELSE /\ filter_q' = filter_q
                      /\ state'.orientation = state.orientation]_vars

\* the first poll to return Ok comes one second after the connection: the
\* report of a turning controller is decoded, the orientation is not touched
C26_Witness ==
    /\ poll_result = "Ok"
    /\ FullReport
    /\ now = ONE_SECOND
    /\ last_update = now
    /\ ok_prev = DefaultControllerState
    /\ ok_last = state
    /\ state.gyroscope # [x |-> 0, y |-> 0, z |-> 0]
    /\ state.orientation = IdentityQuat
    /\ filter_q = IdentityQuat

\* the last call was name, made on the spatial state of the loop
Called(name) == spatial_op = [name |-> name, on |-> "spatial"]

\* C27: in Standard mode, with the left stick pushed right so that its
\* deadzoned deflection lies strictly between 0 and 1, a Quadratic or Cubic
\* configuration ends the tick with a smaller velocity along x than a Linear
\* configuration does from the same prior state: the curve has made the
\* target speed smaller.
C27_CurveShapesTargetSpeed ==
    [][(Called("integrate")' /\ spatial.mode = "Standard"
        /\ spatial.config.velocity_curve # "Linear"
        /\ Shaped(spatial.config.deadzone, pad').lx > 0
        /\ Shaped(spatial.config.deadzone, pad').lx < FP) =>
          spatial'.velocity[1] <
              integrate([spatial EXCEPT !.config.velocity_curve = "Linear"],
                        pad', spatial_dt).velocity[1]]_vars

\* the fields each reset operation clears
Cleared(name) ==
    CASE name = "reset" ->
           {"position", "velocity", "linear_accel", "angular_velocity",
            "smoothed_velocity", "orientation"}
      [] name = "reset_position" ->
           {"position", "velocity", "smoothed_velocity"}
      [] name = "reset_orientation" -> {"orientation"}

\* C28: reset, reset_position and reset_orientation each set the fields of
\* their own subset to the values of a new state (zero vectors, the identity
\* orientation) and leave every other field, the mode, the configuration and
\* the force-type tag among them, as it was.
C28_ResetsClearTheirSubset ==
    [][\A name \in {"reset", "reset_position", "reset_orientation"} :
          Called(name)' =>
              \A f \in DOMAIN spatial :
                  spatial'[f] = IF f \in Cleared(name)
                                THEN new(spatial.config)[f]
                                ELSE spatial[f]]_vars

\* reset_position on a state that has turned, in a mode other than Standard
C28_Witness ==
    /\ Called("reset_position")
    /\ spatial.position = Zero3
    /\ spatial.orientation # IdentityQuat
    /\ spatial.angular_velocity # Zero3
    /\ spatial.mode # "Standard"

DpadTags == [dpad_up |-> 1, dpad_down |-> 2, dpad_left |-> 3, dpad_right |-> 4]

\* the D-pad directions held in a controller state
Held(st) == {d \in DOMAIN DpadTags : st.buttons[d]}

WithoutDpad(st) ==
    [st EXCEPT !.buttons = [b \in ButtonNames |->
                               b \notin DOMAIN DpadTags /\ st.buttons[b]]]

Untagged(self) == [self EXCEPT !.axidraw_force_type = 0]

\* C29: a tick in AxiDraw mode with no D-pad direction held keeps the
\* force-type tag; with directions held the tag becomes the number of one of
\* them (up 1, down 2, left 3, right 4); and apart from the tag the state
\* after the tick is the one the same tick gives with the D-pad let go.
C29_DpadOnlyLatchesTag ==
    [][(Called("integrate")' /\ spatial.mode = "AxiDraw") =>
          /\ Held(pad') = {} =>
                spatial'.axidraw_force_type = spatial.axidraw_force_type
          /\ Held(pad') # {} =>
                spatial'.axidraw_force_type \in
                    {DpadTags[d] : d \in Held(pad')}
          /\ Untagged(spatial') =
                Untagged(integrate(spatial, WithoutDpad(pad'),
                                   spatial_dt))]_vars

\* the tag set by the D-pad on an earlier tick is still there after a tick
\* that moved the plotter with the D-pad let go
C29_Witness ==
    /\ Called("integrate")
    /\ spatial.mode = "AxiDraw"
    /\ Held(pad) = {}
    /\ spatial.axidraw_force_type = 4
    /\ spatial.velocity # Zero3

=============================================================================
